---------------------------- MODULE Spec2Model ----------------------------
(***************************************************************************)
(* Neona task coordination core: the SQLite store (tasks, leases, locks),  *)
(* the control-plane service verbs built on it, and the scheduler with its *)
(* worker pool.                                                            *)
(*                                                                         *)
(* The store opens the database with db.SetMaxOpenConns(1)                 *)
(* (store.go:39): every statement and every transaction runs on the one    *)
(* pooled connection, so a transaction (Begin .. Commit) excludes every    *)
(* other store call for its whole length and is one atomic step here.      *)
(* A service verb or a scheduler routine that makes several store calls    *)
(* is one step per store call: other callers interleave between them.      *)
(*                                                                         *)
(* Time is the integer `now`; time.Now() reads it.  expires_at and         *)
(* created_at are such integers.                                           *)
(***************************************************************************)
EXTENDS Integers, Sequences, FiniteSets, Bags, TLC

\* ------------------------------------------------------------------ bounds
\* number of tasks submitted
NumTasks == 2
\* number of tasks submitted when the clients of the control plane race
CpTasks == 1
\* last value of the clock
MaxTime == 1
\* largest ttl a caller passes (0 stands for every ttl <= 0: expired at once)
MaxTTL == 1
\* number of lease rows ever inserted (lease ids are fresh uuids)
MaxLeases == 2
\* number of lock rows ever inserted (lock ids are fresh uuids)
MaxLocks == 3
\* the largest cap of a scheduler configuration
MaxCap == 2
\* number of AtomicClaimTask attempts of the holders
MaxAttempts == 3
\* the RunTask calls that get past the lease check
MaxRuns == 1
\* the length of the args of a command
MaxArgs == 2
\* the processes the connector starts
MaxSpawns == 2
\* the Start calls that start a poll loop
MaxLoops == 2
\* the Start calls after Stop
MaxLateStarts == 1

\* ------------------------------------------------------- program constants
\* the ttl the scheduler passes to AtomicClaimTask
ClaimTTL == 300

Holders == {"h1", "h2", "h3"}
\* the holder ids the clients of the control plane claim under
Clients == {"h1", "h2"}
Resources == {"res-X", "res-Y"}
TTLs == 0..MaxTTL
TaskIds == 1..NumTasks

\* models.TaskStatus
TaskStatusPending == "pending"
TaskStatusClaimed == "claimed"
TaskStatusRunning == "running"
TaskStatusCompleted == "completed"
TaskStatusFailed == "failed"

\* claimed_by NULL reads back as the empty string (GetTask)
NoHolder == ""

\* store and control-plane sentinel errors, and success
OK == "ok"
ErrTaskNotClaimable == "ErrTaskNotClaimable"
ErrTaskAlreadyLeased == "ErrTaskAlreadyLeased"
ErrResourceLocked == "ErrResourceLocked"
ErrAlreadyClaimed == "ErrAlreadyClaimed"
ErrNoLease == "ErrNoLease"
ErrNotOwner == "ErrNotOwner"
\* a caller that has not called yet
NoCall == "none"

VARIABLES
    now,        \* the clock
    tasks,      \* table tasks: sequence of rows, the id is the index
    leases,     \* table leases: set of rows
    nextLease,  \* number of lease ids handed out
    locks,      \* table locks: set of rows
    nextLock,   \* number of lock ids handed out
    txOk,       \* txOk[t]: number of ClaimTaskWithLeaseTx calls on t that returned a result
    txErrs,     \* the errors ClaimTaskWithLeaseTx calls have returned
    lockGrants, \* the locks AcquireLock calls have returned
    lockFails,  \* lockFails[r]: the times at which an AcquireLock on r returned ErrResourceLocked
    cp,         \* cp[h]: the control-plane request of client h being served
    cpRet,      \* the last return of a control-plane request: who called what, and the result
    atom,       \* what the callers of AtomicClaimTask have been returned
    config,     \* Scheduler.config
    ctxDone,    \* Scheduler.ctx is cancelled
    mainPc,     \* where the daemon's main is: init, serving, waiting, stopped
    loops,      \* the schedulerLoop goroutines, in the order of their start
    activeWorkers,   \* Scheduler.activeWorkers
    connectorCounts, \* Scheduler.connectorCounts
    workers,    \* Scheduler.workers: worker id -> WorkerInfo
    wk,         \* the runWorker goroutines: worker id -> position and locals
    wg,         \* the counter of Scheduler.wg
    nextWorker, \* number of worker ids handed out to spawned workers
    txCall,     \* the last ClaimTaskWithLeaseTx call on the bare store: its task and error
    pdr,        \* table pdr, the audit log: bag of rows
    runs,       \* table runs: sequence of rows, the id is the index
    execs,      \* number of connector.Execute invocations
    execRet,    \* what the last connector.Execute returned to RunTask
    times,      \* columns created_at, updated_at of table tasks, as the concurrent
                \* writers of the store stamp them
    writers,    \* writers[g]: the store write goroutine g is in, with the time it read
    lastRelease, \* the lock id of the last ReleaseLock call, where the specification notes it
    lockReplaced, \* the expired rows the last granted AcquireLock deleted, where noted
    mu,         \* sch.mu, where the specification follows it: who holds it
    lastPoll,   \* what the last poll tick found, where the specification notes it
    lateStarts, \* the Start calls made after Stop has cancelled the context
    lexec       \* the LocalExec connector: its last Execute call and what it returned,
                \* and the number of processes it has started

taskVars == <<tasks, leases, nextLease>>
lockVars == <<locks, nextLock>>
\* what the callers of the store have been returned (kept by the observer of a run)
txHist == <<txOk, txErrs>>
lockHist == <<lockGrants, lockFails>>
cpVars == <<cp, cpRet>>
auditVars == <<pdr, runs, execs, execRet>>
stampVars == <<times, writers>>
auxVars == <<lexec, lateStarts, lastPoll, mu, lastRelease, lockReplaced>>
schedVars == <<config, ctxDone, mainPc, loops, activeWorkers, connectorCounts,
               workers, wk, wg, nextWorker>>

\* ------------------------------------------------------------------- store

\* the rows of table leases for a task with expires_at > at
ActiveLeases(ls, taskID, at) ==
    {l \in ls : l.task_id = taskID /\ l.expires_at > at}

NoLease == [id |-> 0, task_id |-> 0, holder_id |-> NoHolder, expires_at |-> 0, created_at |-> 0]

\* GetActiveLease without the condition on expires_at
GetActiveLeaseSet_AnyLease(ls, taskID, at) ==
    LET act == {l \in ls : l.task_id = taskID}
    IN {l \in act : \A m \in act : m.created_at <= l.created_at}

\* SELECT ... WHERE task_id = ? AND expires_at > ? ORDER BY created_at DESC LIMIT 1
\* (rows with equal created_at: the one SQLite returns is not determined; the
\* callers below take every candidate)
GetActiveLeaseSet(ls, taskID, at) ==
    LET act == ActiveLeases(ls, taskID, at)
    IN {l \in act : \A m \in act : m.created_at <= l.created_at}

\* UPDATE tasks SET status = ? WHERE id = ?
UpdateTaskStatus(ts, id, status) ==
    IF id \in DOMAIN ts THEN [ts EXCEPT ![id].status = status] ELSE ts

\* UPDATE tasks SET status = claimed, claimed_by = ? WHERE id = ?
ClaimTask(ts, id, holderID) ==
    IF id \in DOMAIN ts
    THEN [ts EXCEPT ![id] = [status |-> TaskStatusClaimed, claimed_by |-> holderID]]
    ELSE ts

\* ReleaseTask that leaves claimed_by as it is
ReleaseTask_KeepHolder(ts, id) ==
    IF id \in DOMAIN ts THEN [ts EXCEPT ![id].status = TaskStatusPending] ELSE ts

\* UPDATE tasks SET status = pending, claimed_by = NULL WHERE id = ?
ReleaseTask(ts, id) ==
    IF id \in DOMAIN ts
    THEN [ts EXCEPT ![id] = [status |-> TaskStatusPending, claimed_by |-> NoHolder]]
    ELSE ts

\* the row CreateLease and ClaimTaskWithLeaseTx insert
NewLease(id, taskID, holderID, ttlSec, at) ==
    [id |-> id, task_id |-> taskID, holder_id |-> holderID,
     expires_at |-> at + ttlSec, created_at |-> at]

\* DELETE FROM leases WHERE id = ?
DeleteLease(ls, leaseID) == {l \in ls : l.id # leaseID}

\* UPDATE leases SET expires_at = now + ttl WHERE id = ?
RenewLease(ls, leaseID, ttlSec, at) ==
    {IF l.id = leaseID THEN [l EXCEPT !.expires_at = at + ttlSec] ELSE l : l \in ls}

\* CreateTask: INSERT a pending row
CreateTask ==
    /\ tasks' = Append(tasks, [status |-> TaskStatusPending, claimed_by |-> NoHolder])
    /\ UNCHANGED <<leases, nextLease>>

\* ClaimTaskWithLeaseTx without the status check of step 1 and the
\* "AND status = pending" of step 3
TxClaimOutcome_NoStatusCheck(ts, ls, leaseID, taskID, holderID, ttlSec, at) ==
    IF taskID \notin DOMAIN ts
    THEN [err |-> ErrTaskNotClaimable, tasks |-> ts, leases |-> ls]
    ELSE IF ActiveLeases(ls, taskID, at) # {}
    THEN [err |-> ErrTaskAlreadyLeased, tasks |-> ts, leases |-> ls]
    ELSE [err |-> OK,
          tasks |-> [ts EXCEPT ![taskID] =
                        [status |-> TaskStatusClaimed, claimed_by |-> holderID]],
          leases |-> ls \cup {NewLease(leaseID, taskID, holderID, ttlSec, at)}]

\* ClaimTaskWithLeaseTx whose step 3 leaves the task row as it is
TxClaimOutcome_NoUpdate(ts, ls, leaseID, taskID, holderID, ttlSec, at) ==
    IF taskID \notin DOMAIN ts
    THEN [err |-> ErrTaskNotClaimable, tasks |-> ts, leases |-> ls]
    ELSE IF ts[taskID].status # TaskStatusPending
    THEN [err |-> ErrTaskNotClaimable, tasks |-> ts, leases |-> ls]
    ELSE IF ActiveLeases(ls, taskID, at) # {}
    THEN [err |-> ErrTaskAlreadyLeased, tasks |-> ts, leases |-> ls]
    ELSE [err |-> OK, tasks |-> ts,
          leases |-> ls \cup {NewLease(leaseID, taskID, holderID, ttlSec, at)}]

\* ClaimTaskWithLeaseTx whose step 3 runs before the lease check of step 2 and
\* is not rolled back when step 2 fails
TxClaimOutcome_NoRollback(ts, ls, leaseID, taskID, holderID, ttlSec, at) ==
    IF taskID \notin DOMAIN ts
    THEN [err |-> ErrTaskNotClaimable, tasks |-> ts, leases |-> ls]
    ELSE IF ts[taskID].status # TaskStatusPending
    THEN [err |-> ErrTaskNotClaimable, tasks |-> ts, leases |-> ls]
    ELSE IF ActiveLeases(ls, taskID, at) # {}
    THEN [err |-> ErrTaskAlreadyLeased,
          tasks |-> [ts EXCEPT ![taskID] =
                        [status |-> TaskStatusClaimed, claimed_by |-> holderID]],
          leases |-> ls]
    ELSE [err |-> OK,
          tasks |-> [ts EXCEPT ![taskID] =
                        [status |-> TaskStatusClaimed, claimed_by |-> holderID]],
          leases |-> ls \cup {NewLease(leaseID, taskID, holderID, ttlSec, at)}]

\* The outcome of the transaction of ClaimTaskWithLeaseTx on the tables (ts, ls):
\* [err, tasks, leases].  Steps 1-4 of the source; a failing step rolls back.
TxClaimOutcome(ts, ls, leaseID, taskID, holderID, ttlSec, at) ==
    IF taskID \notin DOMAIN ts
    THEN [err |-> ErrTaskNotClaimable, tasks |-> ts, leases |-> ls]
    ELSE IF ts[taskID].status # TaskStatusPending
    THEN [err |-> ErrTaskNotClaimable, tasks |-> ts, leases |-> ls]
    ELSE IF ActiveLeases(ls, taskID, at) # {}
    THEN [err |-> ErrTaskAlreadyLeased, tasks |-> ts, leases |-> ls]
    ELSE [err |-> OK,
          tasks |-> [ts EXCEPT ![taskID] =
                        [status |-> TaskStatusClaimed, claimed_by |-> holderID]],
          leases |-> ls \cup {NewLease(leaseID, taskID, holderID, ttlSec, at)}]

\* ClaimTaskWithLeaseTx(taskID, holderID, ttlSec)
ClaimTaskWithLeaseTx(taskID, holderID, ttlSec) ==
    /\ nextLease < MaxLeases
    /\ LET out == TxClaimOutcome(tasks, leases, nextLease + 1, taskID, holderID, ttlSec, now)
       IN /\ tasks' = out.tasks
          /\ leases' = out.leases
          /\ nextLease' = IF out.err = OK THEN nextLease + 1 ELSE nextLease

\* CreateLease(taskID, holderID, ttlSec): INSERT a lease row
CreateLease(taskID, holderID, ttlSec) ==
    /\ nextLease < MaxLeases
    /\ leases' = leases \cup {NewLease(nextLease + 1, taskID, holderID, ttlSec, now)}
    /\ nextLease' = nextLease + 1
    /\ UNCHANGED tasks

\* the goroutines that write to table tasks at the same time
Writers == {"g1", "g2"}

\* a goroutine that is in no store write
NoWrite == [pc |-> "idle", op |-> "none", task |-> 0, at |-> 0]

\* the store writes that stamp updated_at
StampOps == {"ClaimTask", "ReleaseTask", "UpdateTaskStatus"}

\* CreateTask with the timestamp columns: created_at = updated_at = the time read
CreateTaskStamped ==
    /\ CreateTask
    /\ times' = Append(times, [created_at |-> now, updated_at |-> now])
    /\ UNCHANGED writers

\* ClaimTask, ReleaseTask, UpdateTaskStatus: time.Now() is read, and then the
\* goroutine waits for the one connection of the pool (db.Exec)
StampRead(g, op, taskID) ==
    /\ writers[g] = NoWrite
    /\ writers' = [writers EXCEPT ![g] = [pc |-> "exec", op |-> op, task |-> taskID, at |-> now]]
    /\ UNCHANGED <<taskVars, times>>

\* the UPDATE of the goroutine runs, with the time it has read
StampExec(g) ==
    /\ writers[g].pc = "exec"
    /\ LET t == writers[g].task
       IN /\ tasks' = CASE writers[g].op = "ClaimTask" -> ClaimTask(tasks, t, g)
                         [] writers[g].op = "ReleaseTask" -> ReleaseTask(tasks, t)
                         [] OTHER -> UpdateTaskStatus(tasks, t, TaskStatusRunning)
          /\ times' = [times EXCEPT ![t].updated_at = writers[g].at]
    /\ writers' = [writers EXCEPT ![g] = NoWrite]
    /\ UNCHANGED <<leases, nextLease>>

\* no ClaimTaskWithLeaseTx call observed yet
NoTxCall == [n |-> 0, task |-> 0, err |-> NoCall]

\* ------------------------------------------------------------------- locks

\* the rows of table locks for a resource with expires_at > at
ActiveLocks(lk, resourceID, at) ==
    {l \in lk : l.resource_id = resourceID /\ l.expires_at > at}

NoLock == [id |-> 0, resource_id |-> "", holder_id |-> NoHolder,
           created_at |-> 0, expires_at |-> 0]

\* resource_id TEXT NOT NULL UNIQUE: the INSERT fails when a row of the resource exists
UniqueViolation(lk, resourceID) == \E l \in lk : l.resource_id = resourceID

\* AcquireLock that inserts without step 2, into a table without the UNIQUE index
AcquireLockOutcome_NoCheck(lk, lockID, resourceID, holderID, ttlSec, at) ==
    LET cleaned == {l \in lk : ~(l.resource_id = resourceID /\ l.expires_at <= at)}
        lock == [id |-> lockID, resource_id |-> resourceID, holder_id |-> holderID,
                 created_at |-> at, expires_at |-> at + ttlSec]
    IN [err |-> OK, locks |-> cleaned \cup {lock}, lock |-> lock]

\* AcquireLock whose step 1 deletes every row of the resource
\* (DELETE ... WHERE resource_id = ? without "AND expires_at <= ?")
AcquireLockOutcome_Steal(lk, lockID, resourceID, holderID, ttlSec, at) ==
    LET cleaned == {l \in lk : l.resource_id # resourceID}
        lock == [id |-> lockID, resource_id |-> resourceID, holder_id |-> holderID,
                 created_at |-> at, expires_at |-> at + ttlSec]
    IN [err |-> OK, locks |-> cleaned \cup {lock}, lock |-> lock]

\* AcquireLock without step 1: an expired row stays and the INSERT hits the
\* UNIQUE index
AcquireLockOutcome_NoCleanup(lk, lockID, resourceID, holderID, ttlSec, at) ==
    LET lock == [id |-> lockID, resource_id |-> resourceID, holder_id |-> holderID,
                 created_at |-> at, expires_at |-> at + ttlSec]
    IN IF ActiveLocks(lk, resourceID, at) # {}
       THEN [err |-> ErrResourceLocked, locks |-> lk, lock |-> NoLock]
       ELSE IF UniqueViolation(lk, resourceID)
       THEN [err |-> ErrResourceLocked, locks |-> lk, lock |-> NoLock]
       ELSE [err |-> OK, locks |-> lk \cup {lock}, lock |-> lock]

\* The outcome of the transaction of AcquireLock on table lk: [err, locks, lock]
AcquireLockOutcome(lk, lockID, resourceID, holderID, ttlSec, at) ==
    LET cleaned == {l \in lk : ~(l.resource_id = resourceID /\ l.expires_at <= at)}
        lock == [id |-> lockID, resource_id |-> resourceID, holder_id |-> holderID,
                 created_at |-> at, expires_at |-> at + ttlSec]
    IN IF ActiveLocks(cleaned, resourceID, at) # {}
       THEN [err |-> ErrResourceLocked, locks |-> lk, lock |-> NoLock]
       ELSE IF UniqueViolation(cleaned, resourceID)
       THEN [err |-> ErrResourceLocked, locks |-> lk, lock |-> NoLock]
       ELSE [err |-> OK, locks |-> cleaned \cup {lock}, lock |-> lock]

\* AcquireLock(resourceID, holderID, lockType, ttlSec)
AcquireLock(resourceID, holderID, ttlSec) ==
    /\ nextLock < MaxLocks
    /\ LET out == AcquireLockOutcome(locks, nextLock + 1, resourceID, holderID, ttlSec, now)
       IN /\ locks' = out.locks
          /\ nextLock' = IF out.err = OK THEN nextLock + 1 ELSE nextLock

\* GetLock(resourceID): the rows the query can return (none: nil)
GetLock(lk, resourceID, at) ==
    {l \in lk : l.resource_id = resourceID /\ l.expires_at > at}

\* ReleaseLock deleting every row from the given id on (WHERE id >= ?)
ReleaseLock_FromId(lockID) ==
    /\ locks' = {l \in locks : l.id < lockID}
    /\ UNCHANGED nextLock

\* ReleaseLock(lockID): DELETE FROM locks WHERE id = ?
ReleaseLock(lockID) ==
    /\ locks' = {l \in locks : l.id # lockID}
    /\ UNCHANGED nextLock

\* ----------------------------------------------------- control-plane service
\* hashInputs: the hex digest of the JSON of the inputs (the inputs of the
\* callers below are maps of strings and numbers, for which json.Marshal does
\* not fail); the digest is kept symbolic
hashInputs(inputs) == "sha256(" \o inputs \o ")"

\* PDRWriter.Record(action, inputs, outcome, taskID, details): store.WritePDR
\* inserts one row into table pdr; the inputs are stood for by the task id
Record(log, action, outcome, taskID) ==
    log (+) SetToBag({[action |-> action, task_id |-> taskID, outcome |-> outcome,
                       inputs_hash |-> hashInputs(ToString(taskID))]})

\* the exit code of a run row CreateRun has inserted and UpdateRun has not set
NoExit == <<>>

\* CreateRun: INSERT a run row for the task
CreateRun(rs, taskID) == Append(rs, [task_id |-> taskID, exit |-> NoExit])

\* UpdateRun: UPDATE runs SET exit_code = ... WHERE id = ?
UpdateRun(rs, id, exitCode) ==
    IF id \in DOMAIN rs THEN [rs EXCEPT ![id].exit = <<exitCode>>] ELSE rs

\* the exit codes of a process the connector has run (exec.ExitError.ExitCode
\* is -1 for a process a signal has ended)
ExitCodes == {-1, 0, 1}

\* what connector.Execute returns: an error and no result (a command that is
\* not allowed, a process that could not be started), or a result with the
\* exit code of the process
ExecResults ==
    {[err |-> TRUE, exit |-> 0]} \cup {[err |-> FALSE, exit |-> e] : e \in ExitCodes}

\* the command names and the argument words of the Execute calls
Commands == {"go", "git", "rm", "unknown"}
Words == {"test", "diff", "status", "push", "run"}
ArgLists == UNION {[1..n -> Words] : n \in 0..MaxArgs}

\* allowedCommands: the commands of the allowlist and their first arguments
allowedCommands == [go |-> <<"test">>, git |-> <<"diff", "status">>]

\* LocalExec.IsAllowed that looks at the command only
IsAllowed_CmdOnly(cmd, args) == cmd \in DOMAIN allowedCommands

\* the loop of IsAllowed over allowedSubcmds, from index i on
RECURSIVE SubcmdAllowed(_, _, _)
SubcmdAllowed(allowedSubcmds, subcmd, i) ==
    IF i > Len(allowedSubcmds) THEN FALSE
    ELSE IF subcmd = allowedSubcmds[i] THEN TRUE
    ELSE SubcmdAllowed(allowedSubcmds, subcmd, i + 1)

\* LocalExec.IsAllowed
IsAllowed(cmd, args) ==
    IF cmd \notin DOMAIN allowedCommands THEN FALSE
    ELSE IF Len(args) = 0 THEN FALSE
    ELSE SubcmdAllowed(allowedCommands[cmd], args[1], 1)

\* what execCmd.Run() comes to: the process could not be started (err, no
\* result), or it ran and exited with a code
RunResults == ExecResults

\* no Execute call yet
NoExecute == [cmd |-> "", args |-> <<>>, err |-> FALSE, result |-> <<>>, spawns |-> 0]

\* LocalExec.Execute(ctx, cmd, args): an error and no result for a command that
\* is not allowed; otherwise exec.CommandContext(...).Run() and its outcome
Execute(cmd, args) ==
    IF ~IsAllowed(cmd, args)
    THEN lexec' = [cmd |-> cmd, args |-> args, err |-> TRUE, result |-> <<>>,
                   spawns |-> lexec.spawns]
    ELSE /\ lexec.spawns < MaxSpawns
         /\ \E res \in RunResults :
               lexec' = [cmd |-> cmd, args |-> args, err |-> res.err,
                         result |-> IF res.err THEN <<>> ELSE <<res.exit>>,
                         spawns |-> lexec.spawns + 1]

\* no connector.Execute has returned yet
NoExec == [err |-> FALSE, exit |-> 0]

\* RunTask classifying by the exit code only, -1 for an error included
RunOutcome_ExitOnly(res) ==
    IF (IF res.err THEN -1 ELSE res.exit) # 0 THEN "failed" ELSE "success"

\* RunTask: outcome is "error" on an error of Execute, "failed" on a nonzero
\* exit code, "success" otherwise
RunOutcome(res) ==
    IF res.err THEN "error" ELSE IF res.exit # 0 THEN "failed" ELSE "success"

\* RunTask: exitCode is -1 on an error of Execute, result.ExitCode otherwise
RunExitCode(res) == IF res.err THEN -1 ELSE res.exit

\* the RunTask calls past their lease check that have no run row yet
RunsStarting == Cardinality({h \in Clients : cp[h].op = "run" /\ cp[h].pc = "running"})

\* One goroutine per HTTP request (net/http): the requests of different
\* clients interleave between the store calls of a verb.

Idle == [op |-> "idle", pc |-> "idle", task |-> 0, ttl |-> 0, lease |-> 0, run |-> 0]
NoRet == [holder |-> NoHolder, op |-> NoCall, task |-> 0, err |-> NoCall, lease |-> 0]

Ret(h, op, taskID, err, leaseID) ==
    [holder |-> h, op |-> op, task |-> taskID, err |-> err, lease |-> leaseID]

\* Service.ClaimTask, "Check existing lease": GetActiveLease, then
\* ErrAlreadyClaimed or on to the claim
SvcClaimTask_Check(h, taskID, ttlSec) ==
    /\ cp[h] = Idle
    /\ IF GetActiveLeaseSet(leases, taskID, now) # {}
       THEN /\ cpRet' = Ret(h, "claim", taskID, ErrAlreadyClaimed, 0)
            /\ UNCHANGED cp
       ELSE /\ cp' = [cp EXCEPT ![h] = [op |-> "claim", pc |-> "claim", task |-> taskID,
                                         ttl |-> ttlSec, lease |-> 0, run |-> 0]]
            /\ UNCHANGED cpRet
    /\ UNCHANGED <<taskVars, auditVars>>

\* Service.ClaimTask, "Claim task": store.ClaimTask
SvcClaimTask_Claim(h) ==
    /\ cp[h].op = "claim" /\ cp[h].pc = "claim"
    /\ tasks' = ClaimTask(tasks, cp[h].task, h)
    /\ cp' = [cp EXCEPT ![h].pc = "lease"]
    /\ UNCHANGED <<leases, nextLease, cpRet, auditVars>>

\* Service.ClaimTask, "Create lease": store.CreateLease, and the return
SvcClaimTask_Lease(h) ==
    /\ cp[h].op = "claim" /\ cp[h].pc = "lease"
    /\ nextLease < MaxLeases
    /\ leases' = leases \cup {NewLease(nextLease + 1, cp[h].task, h, cp[h].ttl, now)}
    /\ nextLease' = nextLease + 1
    /\ pdr' = Record(pdr, "task.claim", "success", cp[h].task)
    /\ cpRet' = Ret(h, "claim", cp[h].task, OK, nextLease + 1)
    /\ cp' = [cp EXCEPT ![h] = Idle]
    /\ UNCHANGED <<tasks, runs, execs, execRet>>

\* Service.ReleaseTask without the comparison of lease.HolderID with the caller
SvcReleaseTask_Check_NoOwner(h, taskID) ==
    /\ cp[h] = Idle
    /\ LET found == GetActiveLeaseSet(leases, taskID, now)
       IN IF found = {}
          THEN /\ cpRet' = Ret(h, "release", taskID, ErrNoLease, 0)
               /\ UNCHANGED cp
          ELSE \E lease \in found :
                 /\ cp' = [cp EXCEPT ![h] = [op |-> "release", pc |-> "delete",
                                    task |-> taskID, ttl |-> 0, lease |-> lease.id, run |-> 0]]
                 /\ UNCHANGED cpRet
    /\ UNCHANGED <<taskVars, auditVars>>

\* Service.ReleaseTask: GetActiveLease, then ErrNoLease, ErrNotOwner or on to
\* the delete
SvcReleaseTask_Check(h, taskID) ==
    /\ cp[h] = Idle
    /\ LET found == GetActiveLeaseSet(leases, taskID, now)
       IN IF found = {}
          THEN /\ cpRet' = Ret(h, "release", taskID, ErrNoLease, 0)
               /\ UNCHANGED cp
          ELSE \E lease \in found :
                 IF lease.holder_id # h
                 THEN /\ cpRet' = Ret(h, "release", taskID, ErrNotOwner, 0)
                      /\ UNCHANGED cp
                 ELSE /\ cp' = [cp EXCEPT ![h] = [op |-> "release", pc |-> "delete",
                                    task |-> taskID, ttl |-> 0, lease |-> lease.id, run |-> 0]]
                      /\ UNCHANGED cpRet
    /\ UNCHANGED <<taskVars, auditVars>>

\* Service.ReleaseTask: store.DeleteLease(lease.ID)
SvcReleaseTask_Delete(h) ==
    /\ cp[h].op = "release" /\ cp[h].pc = "delete"
    /\ leases' = DeleteLease(leases, cp[h].lease)
    /\ cp' = [cp EXCEPT ![h].pc = "release"]
    /\ UNCHANGED <<tasks, nextLease, cpRet, auditVars>>

\* Service.ReleaseTask: store.ReleaseTask(taskID), and the return
SvcReleaseTask_Release(h) ==
    /\ cp[h].op = "release" /\ cp[h].pc = "release"
    /\ tasks' = ReleaseTask(tasks, cp[h].task)
    /\ pdr' = Record(pdr, "task.release", "success", cp[h].task)
    /\ cpRet' = Ret(h, "release", cp[h].task, OK, cp[h].lease)
    /\ cp' = [cp EXCEPT ![h] = Idle]
    /\ UNCHANGED <<leases, nextLease, runs, execs, execRet>>

\* Service.RunTask whose "Verify claim" tests lease == nil only
SvcRunTask_Verify_NoOwner(h, taskID) ==
    /\ cp[h] = Idle
    /\ LET found == GetActiveLeaseSet(leases, taskID, now)
       IN IF found = {}
          THEN /\ cpRet' = Ret(h, "run", taskID, ErrNotOwner, 0)
               /\ UNCHANGED cp
          ELSE \E lease \in found :
                 /\ Len(runs) + RunsStarting < MaxRuns
                 /\ cp' = [cp EXCEPT ![h] = [op |-> "run", pc |-> "running",
                                    task |-> taskID, ttl |-> 0, lease |-> lease.id, run |-> 0]]
                 /\ UNCHANGED cpRet
    /\ UNCHANGED <<taskVars, auditVars>>

\* Service.RunTask, "Verify claim": GetActiveLease, then ErrNotOwner or on
SvcRunTask_Verify(h, taskID) ==
    /\ cp[h] = Idle
    /\ LET found == GetActiveLeaseSet(leases, taskID, now)
       IN IF found = {}
          THEN /\ cpRet' = Ret(h, "run", taskID, ErrNotOwner, 0)
               /\ UNCHANGED cp
          ELSE \E lease \in found :
                 IF lease.holder_id # h
                 THEN /\ cpRet' = Ret(h, "run", taskID, ErrNotOwner, 0)
                      /\ UNCHANGED cp
                 ELSE /\ Len(runs) + RunsStarting < MaxRuns
                      /\ cp' = [cp EXCEPT ![h] = [op |-> "run", pc |-> "running",
                                    task |-> taskID, ttl |-> 0, lease |-> lease.id, run |-> 0]]
                      /\ UNCHANGED cpRet
    /\ UNCHANGED <<taskVars, auditVars>>

\* Service.RunTask, "Update task status" and "Create run record":
\* UpdateTaskStatus(taskID, running), CreateRun(taskID, command, args)
SvcRunTask_Running(h) ==
    /\ cp[h].op = "run" /\ cp[h].pc = "running"
    /\ tasks' = UpdateTaskStatus(tasks, cp[h].task, TaskStatusRunning)
    /\ runs' = CreateRun(runs, cp[h].task)
    /\ cp' = [cp EXCEPT ![h].pc = "execute", ![h].run = Len(runs) + 1]
    /\ UNCHANGED <<leases, nextLease, cpRet, pdr, execs, execRet>>

\* the outcome RunTask derives from what connector.Execute returned
Outcomes == {"success", "failed", "error"}

\* Service.RunTask, from "Execute via connector" to "Record PDR": the connector
\* runs the command, UpdateRun, the task completed on outcome success and
\* failed otherwise, the audit record; and the return
SvcRunTask_Finish(h, res) ==
    /\ cp[h].op = "run" /\ cp[h].pc = "execute"
    /\ execs' = execs + 1
    /\ execRet' = res
    /\ runs' = UpdateRun(runs, cp[h].run, RunExitCode(res))
    /\ tasks' = UpdateTaskStatus(tasks, cp[h].task,
                    IF RunOutcome(res) = "success" THEN TaskStatusCompleted
                    ELSE TaskStatusFailed)
    /\ pdr' = Record(pdr, "task.run", RunOutcome(res), cp[h].task)
    /\ cpRet' = Ret(h, "run", cp[h].task, OK, cp[h].lease)
    /\ cp' = [cp EXCEPT ![h] = Idle]
    /\ UNCHANGED <<leases, nextLease>>

\* Service.RenewLease: GetActiveLease, then ErrNotOwner or on to the renewal
SvcRenewLease_Check(h, taskID, ttlSec) ==
    /\ cp[h] = Idle
    /\ LET found == GetActiveLeaseSet(leases, taskID, now)
       IN IF found = {}
          THEN /\ cpRet' = Ret(h, "renew", taskID, ErrNotOwner, 0)
               /\ UNCHANGED cp
          ELSE \E lease \in found :
                 IF lease.holder_id # h
                 THEN /\ cpRet' = Ret(h, "renew", taskID, ErrNotOwner, 0)
                      /\ UNCHANGED cp
                 ELSE /\ cp' = [cp EXCEPT ![h] = [op |-> "renew", pc |-> "renew",
                                    task |-> taskID, ttl |-> ttlSec, lease |-> lease.id, run |-> 0]]
                      /\ UNCHANGED cpRet
    /\ UNCHANGED <<taskVars, auditVars>>

\* Service.RenewLease: store.RenewLease(lease.ID, ttlSec), and the return
SvcRenewLease_Renew(h) ==
    /\ cp[h].op = "renew" /\ cp[h].pc = "renew"
    /\ leases' = RenewLease(leases, cp[h].lease, cp[h].ttl, now)
    /\ cpRet' = Ret(h, "renew", cp[h].task, OK, cp[h].lease)
    /\ cp' = [cp EXCEPT ![h] = Idle]
    /\ UNCHANGED <<tasks, nextLease, auditVars>>

\* ------------------------------------------- store: claim any pending task
PendingTasks(ts) == {t \in DOMAIN ts : ts[t].status = TaskStatusPending}

\* The outcomes of AtomicClaimTask(holderID, ttlSec) on the tables (ts, ls):
\* [err, task, tasks, leases], task = 0 for the result "no pending task".
\* One transaction: selects any pending task, then the steps of
\* ClaimTaskWithLeaseTx on it.
AtomicClaimOutcomes(ts, ls, leaseID, holderID, ttlSec, at) ==
    IF PendingTasks(ts) = {}
    THEN {[err |-> OK, task |-> 0, tasks |-> ts, leases |-> ls]}
    ELSE {LET out == TxClaimOutcome(ts, ls, leaseID, t, holderID, ttlSec, at)
          IN [err |-> out.err, task |-> IF out.err = OK THEN t ELSE 0,
              tasks |-> out.tasks, leases |-> out.leases] : t \in PendingTasks(ts)}

\* what the callers of AtomicClaimTask have been returned, before any call:
\* numbers of calls, of claims, of "no pending task", of errors; tasks claimed
NoAttempts == [attempts |-> 0, ok |-> 0, none |-> 0, errs |-> 0, claimed |-> {}]

\* the transaction of AtomicClaimTask commits outcome out
AtomicClaimTask(out) ==
    /\ out.task # 0 => nextLease < MaxLeases
    /\ tasks' = out.tasks
    /\ leases' = out.leases
    /\ nextLease' = IF out.task # 0 THEN nextLease + 1 ELSE nextLease

\* -------------------------------------------------------------- scheduler
NoEntries == [x \in {} |-> 0]

\* connectors.Connector.Name() of the connector the scheduler is built with
ConnectorName == "localexec"

DefaultConfig == [GlobalMax |-> 10, ByConnector |-> [n \in {"localexec"} |-> 5]]

\* the configurations New is given: a connector with a limit of its own, or
\* absent from ByConnector
Configs ==
    {[GlobalMax |-> g, ByConnector |-> b] :
        g \in 1..MaxCap,
        b \in {NoEntries} \cup {[n \in {ConnectorName} |-> k] : k \in 1..MaxCap}}

\* Config.GetConnectorLimit falling back to GlobalMax for an absent connector
GetConnectorLimit_DefaultGlobal(c, connectorName) ==
    IF connectorName \in DOMAIN c.ByConnector THEN c.ByConnector[connectorName]
    ELSE c.GlobalMax

\* Config.GetConnectorLimit
GetConnectorLimit(c, connectorName) ==
    IF connectorName \in DOMAIN c.ByConnector THEN c.ByConnector[connectorName] ELSE 1

\* a read of a Go map[string]int: 0 for an absent key
Count(counts, name) == IF name \in DOMAIN counts THEN counts[name] ELSE 0

\* uuid.New().String(): the n-th worker id
WorkerID(n) == "w" \o ToString(n)

\* pollAndDispatch with the first capacity check only
AtCapacity_GlobalOnly(c, active, counts, name) ==
    active >= c.GlobalMax

\* pollAndDispatch with the second capacity check only
AtCapacity_ConnectorOnly(c, active, counts, name) ==
    Count(counts, name) >= GetConnectorLimit(c, name)

\* pollAndDispatch keeping one slot of each cap free
AtCapacity_OneFree(c, active, counts, name) ==
    \/ active + 1 >= c.GlobalMax
    \/ Count(counts, name) + 1 >= GetConnectorLimit(c, name)

\* the two capacity checks of pollAndDispatch, under sch.mu
AtCapacity(c, active, counts, name) ==
    \/ active >= c.GlobalMax
    \/ Count(counts, name) >= GetConnectorLimit(c, name)

LoopSelect == [pc |-> "select", worker |-> NoHolder, task |-> 0, lease |-> 0]

\* sch.mu unlocked
NoMu == [by |-> NoHolder, phase |-> "free"]

\* the goroutine of the poll loop i
LoopID(i) == "loop" \o ToString(i)

\* sch.mu.Lock() by goroutine p returns
MuLock(p) ==
    /\ mu = NoMu
    /\ mu' = [by |-> p, phase |-> "locked"]

\* goroutine p is in its critical section: the statements between Lock and
\* Unlock run
MuBody(p) ==
    /\ mu = [by |-> p, phase |-> "locked"]
    /\ mu' = [by |-> p, phase |-> "unlocking"]

\* sch.mu.Unlock() by goroutine p
MuUnlock(p) ==
    /\ mu = [by |-> p, phase |-> "unlocking"]
    /\ mu' = NoMu

\* goroutine p with its Unlock deferred to the return of the function
Unlocked_Deferred(p) == TRUE

\* goroutine p is past the Unlock of its critical section: sch.mu.Unlock()
\* comes before the statements that follow
Unlocked(p) == mu.by # p

\* Start without the test of sch.ctx.Err()
Start_NoCtxCheck ==
    /\ wg' = wg + 1
    /\ loops' = Append(loops, LoopSelect)
    /\ UNCHANGED <<config, ctxDone, activeWorkers, connectorCounts, workers, wk,
                   nextWorker>>

\* Start: returns when the context is cancelled (the sentinel test
\* activeWorkers < 0 is never true); otherwise wg.Add(1); go schedulerLoop()
Start ==
    /\ IF ctxDone \/ activeWorkers < 0
       THEN UNCHANGED <<loops, wg>>
       ELSE /\ wg' = wg + 1
            /\ loops' = Append(loops, LoopSelect)
    /\ UNCHANGED <<config, ctxDone, activeWorkers, connectorCounts, workers, wk,
                   nextWorker>>

\* Stop, first half: sch.cancel()
Cancel ==
    /\ ctxDone' = TRUE
    /\ UNCHANGED <<config, loops, activeWorkers, connectorCounts, workers, wk, wg,
                   nextWorker>>

\* Stop, second half: sch.wg.Wait() returns
WaitReturns ==
    /\ wg = 0
    /\ UNCHANGED <<config, ctxDone, loops, activeWorkers, connectorCounts, workers,
                   wk, wg, nextWorker>>

\* schedulerLoop: case <-sch.ctx.Done(): return, with the deferred wg.Done()
LoopReturn(i) ==
    /\ loops[i].pc = "select"
    /\ ctxDone
    /\ loops' = [loops EXCEPT ![i].pc = "returned"]
    /\ wg' = wg - 1
    /\ UNCHANGED <<config, ctxDone, activeWorkers, connectorCounts, workers, wk,
                   nextWorker>>

\* schedulerLoop: case <-ticker.C, and the capacity checks of pollAndDispatch
\* (the ticks are counted out by the lease ids left for their claims)
PollCheck(i) ==
    /\ loops[i].pc = "select"
    /\ nextLease < MaxLeases
    /\ IF AtCapacity(config, activeWorkers, connectorCounts, ConnectorName)
       THEN UNCHANGED loops
       ELSE loops' = [loops EXCEPT ![i].pc = "claim"]
    /\ UNCHANGED <<config, ctxDone, activeWorkers, connectorCounts, workers, wk, wg,
                   nextWorker>>

\* pollAndDispatch decrementing the counts when the claim fails or finds nothing
PollClaim_DecrementOnError(i) ==
    /\ loops[i].pc = "claim"
    /\ \E out \in AtomicClaimOutcomes(tasks, leases, nextLease + 1,
                                      WorkerID(nextWorker + 1), ClaimTTL, now) :
        /\ AtomicClaimTask(out)
        /\ IF out.err # OK \/ out.task = 0
           THEN /\ loops' = [loops EXCEPT ![i] = LoopSelect]
                /\ activeWorkers' = activeWorkers - 1
                /\ UNCHANGED <<nextWorker, pdr>>
           ELSE /\ loops' = [loops EXCEPT ![i] =
                                [pc |-> "count", worker |-> WorkerID(nextWorker + 1),
                                 task |-> out.task, lease |-> nextLease + 1]]
                /\ nextWorker' = nextWorker + 1
                /\ pdr' = Record(pdr, "task.dispatch", "success", out.task)
                /\ UNCHANGED activeWorkers
    /\ UNCHANGED <<config, ctxDone, connectorCounts, workers, wk, wg>>

\* pollAndDispatch: workerID := uuid.New(); AtomicClaimTask(workerID, 300);
\* returns on an error and on "no pending task", and records task.dispatch
\* for the task it has claimed
PollClaim(i) ==
    /\ loops[i].pc = "claim"
    /\ \E out \in AtomicClaimOutcomes(tasks, leases, nextLease + 1,
                                      WorkerID(nextWorker + 1), ClaimTTL, now) :
        /\ AtomicClaimTask(out)
        /\ IF out.err # OK \/ out.task = 0
           THEN /\ loops' = [loops EXCEPT ![i] = LoopSelect]
                /\ UNCHANGED <<nextWorker, pdr>>
           ELSE /\ loops' = [loops EXCEPT ![i] =
                                [pc |-> "count", worker |-> WorkerID(nextWorker + 1),
                                 task |-> out.task, lease |-> nextLease + 1]]
                /\ nextWorker' = nextWorker + 1
                /\ pdr' = Record(pdr, "task.dispatch", "success", out.task)
    /\ UNCHANGED <<config, ctxDone, activeWorkers, connectorCounts, workers, wk, wg>>

\* pollAndDispatch incrementing the counts without storing the WorkerInfo
PollCount_NoInfo(i) ==
    /\ loops[i].pc = "count"
    /\ activeWorkers' = activeWorkers + 1
    /\ connectorCounts' =
           (ConnectorName :> (Count(connectorCounts, ConnectorName) + 1)) @@ connectorCounts
    /\ loops' = [loops EXCEPT ![i].pc = "spawn"]
    /\ UNCHANGED <<config, ctxDone, workers, wk, wg, nextWorker>>

\* pollAndDispatch: under sch.mu, increment the counts and store the WorkerInfo
PollCount(i) ==
    /\ loops[i].pc = "count"
    /\ activeWorkers' = activeWorkers + 1
    /\ connectorCounts' =
           (ConnectorName :> (Count(connectorCounts, ConnectorName) + 1)) @@ connectorCounts
    /\ workers' = (loops[i].worker :>
                      [TaskID |-> loops[i].task, LeaseID |-> loops[i].lease,
                       ConnectorName |-> ConnectorName]) @@ workers
    /\ loops' = [loops EXCEPT ![i].pc = "spawn"]
    /\ UNCHANGED <<config, ctxDone, wk, wg, nextWorker>>

\* pollAndDispatch starting the worker without sch.wg.Add(1)
PollSpawn_NoAdd(i) ==
    /\ loops[i].pc = "spawn"
    /\ wk' = (loops[i].worker :>
                 [pc |-> "hold", task |-> loops[i].task, lease |-> loops[i].lease,
                  released |-> FALSE]) @@ wk
    /\ loops' = [loops EXCEPT ![i] = LoopSelect]
    /\ UNCHANGED <<config, ctxDone, activeWorkers, connectorCounts, workers, wg, nextWorker>>

\* pollAndDispatch: sch.wg.Add(1); go sch.runWorker(task, lease, workerID)
PollSpawn(i) ==
    /\ loops[i].pc = "spawn"
    /\ wg' = wg + 1
    /\ wk' = (loops[i].worker :>
                 [pc |-> "hold", task |-> loops[i].task, lease |-> loops[i].lease,
                  released |-> FALSE]) @@ wk
    /\ loops' = [loops EXCEPT ![i] = LoopSelect]
    /\ UNCHANGED <<config, ctxDone, activeWorkers, connectorCounts, workers, nextWorker>>

\* runWorker: select, case <-sch.ctx.Done(): released = true; return
WorkerInterrupted(w) ==
    /\ wk[w].pc = "hold"
    /\ ctxDone
    /\ wk' = [wk EXCEPT ![w].pc = "release", ![w].released = TRUE]
    /\ UNCHANGED <<tasks, leases>>

\* runWorker: select, case <-time.After(sch.workerDuration)
WorkerTimer(w) ==
    /\ wk[w].pc = "hold"
    /\ wk' = [wk EXCEPT ![w].pc = "complete"]
    /\ UNCHANGED <<tasks, leases>>

\* runWorker: UpdateTaskStatus(task.ID, completed) succeeds
WorkerComplete(w) ==
    /\ wk[w].pc = "complete"
    /\ tasks' = UpdateTaskStatus(tasks, wk[w].task, TaskStatusCompleted)
    /\ wk' = [wk EXCEPT ![w].pc = "delete"]
    /\ UNCHANGED leases

\* runWorker returning on the error without running the deferred decrement
WorkerCompleteFails_Leak(w) ==
    /\ wk[w].pc = "complete"
    /\ wk' = [wk EXCEPT ![w].pc = "done", ![w].released = TRUE]
    /\ UNCHANGED <<tasks, leases>>

\* runWorker: UpdateTaskStatus returns an error: released = true; return
WorkerCompleteFails(w) ==
    /\ wk[w].pc = "complete"
    /\ wk' = [wk EXCEPT ![w].pc = "release", ![w].released = TRUE]
    /\ UNCHANGED <<tasks, leases>>

\* runWorker's last defer going on to DeleteLease without ReleaseTask
WorkerRelease_NoReset(w) ==
    /\ wk[w].pc = "release"
    /\ wk[w].released
    /\ wk' = [wk EXCEPT ![w].pc = "delete"]
    /\ UNCHANGED <<tasks, leases>>

\* runWorker, last defer: if released { ReleaseTask(task.ID) }
WorkerRelease(w) ==
    /\ wk[w].pc = "release"
    /\ wk[w].released
    /\ tasks' = ReleaseTask(tasks, wk[w].task)
    /\ wk' = [wk EXCEPT ![w].pc = "delete"]
    /\ UNCHANGED leases

\* runWorker, last defer: DeleteLease(lease.ID)
WorkerDeleteLease(w) ==
    /\ wk[w].pc = "delete"
    /\ leases' = DeleteLease(leases, wk[w].lease)
    /\ wk' = [wk EXCEPT ![w].pc = "decrement"]
    /\ UNCHANGED tasks

\* runWorker's second defer deleting the WorkerInfo without decrementing the
\* counts
WorkerDecrement_NoCount(w) ==
    /\ wk[w].pc = "decrement"
    /\ workers' = [x \in DOMAIN workers \ {w} |-> workers[x]]
    /\ wk' = [wk EXCEPT ![w].pc = "done"]
    /\ UNCHANGED <<activeWorkers, connectorCounts>>

\* runWorker, second defer: under sch.mu, decrement the counts and delete the
\* WorkerInfo
WorkerDecrement(w) ==
    /\ wk[w].pc = "decrement"
    /\ activeWorkers' = activeWorkers - 1
    /\ connectorCounts' =
           (ConnectorName :> (Count(connectorCounts, ConnectorName) - 1)) @@ connectorCounts
    /\ workers' = [x \in DOMAIN workers \ {w} |-> workers[x]]
    /\ wk' = [wk EXCEPT ![w].pc = "done"]

\* runWorker, first defer: wg.Done(); the goroutine ends
WorkerDone(w) ==
    /\ wk[w].pc = "done"
    /\ wg' = wg - 1
    /\ wk' = [x \in DOMAIN wk \ {w} |-> wk[x]]

\* ------------------------------------------------------------------- clock
Tick ==
    /\ now < MaxTime
    /\ now' = now + 1

vars == <<now, tasks, leases, nextLease, locks, nextLock, txOk, txErrs,
          lockGrants, lockFails, cp, cpRet, atom, config, ctxDone, mainPc, loops,
          activeWorkers, connectorCounts, workers, wk, wg, nextWorker, txCall, pdr, runs, execs, execRet,
          times, writers, lexec, lateStarts, lastPoll, mu, lastRelease, lockReplaced>>

InitState ==
    /\ now = 0
    /\ tasks = <<>>
    /\ leases = {}
    /\ nextLease = 0
    /\ locks = {}
    /\ nextLock = 0
    /\ txOk = [t \in TaskIds |-> 0]
    /\ txErrs = {}
    /\ lockGrants = {}
    /\ lockFails = [r \in Resources |-> {}]
    /\ cp = [h \in Clients |-> Idle]
    /\ cpRet = NoRet
    /\ atom = NoAttempts
    /\ ctxDone = FALSE
    /\ mainPc = "init"
    /\ loops = <<>>
    /\ activeWorkers = 0
    /\ connectorCounts = NoEntries
    /\ workers = NoEntries
    /\ wk = NoEntries
    /\ wg = 0
    /\ nextWorker = 0
    /\ txCall = NoTxCall
    /\ pdr = EmptyBag
    /\ runs = <<>>
    /\ execs = 0
    /\ execRet = NoExec
    /\ times = <<>>
    /\ writers = [g \in Writers |-> NoWrite]
    /\ lexec = NoExecute
    /\ lateStarts = 0
    /\ lastRelease = 0
    /\ lockReplaced = {}
    /\ mu = NoMu
    /\ lastPoll = "none"

\* the daemon: scheduler.New(s, pdr, connector, scheduler.DefaultConfig())
Init == InitState /\ config = DefaultConfig

\* a scheduler built by New with a configuration of small caps
InitSched == InitState /\ config \in Configs

\* time passes
Clock == Tick /\ UNCHANGED <<taskVars, lockVars, txHist, lockHist, cpVars, atom, schedVars, txCall, auditVars, stampVars, auxVars>>

\* a client submits a task
Submit ==
    /\ Len(tasks) < NumTasks
    /\ CreateTask
    /\ UNCHANGED <<now, lockVars, txHist, lockHist, cpVars, atom, schedVars, txCall, auditVars, stampVars, auxVars>>

\* ------------------------------------------------- the control plane only
cpFrame == <<now, lockVars, txHist, lockHist, atom, schedVars, txCall, stampVars, auxVars>>

ClaimRequest ==
    \E h \in Clients, t \in DOMAIN tasks, ttl \in TTLs :
        SvcClaimTask_Check(h, t, ttl) /\ UNCHANGED cpFrame
ClaimStep ==
    \E h \in Clients :
        (SvcClaimTask_Claim(h) \/ SvcClaimTask_Lease(h)) /\ UNCHANGED cpFrame
ReleaseRequest ==
    \E h \in Clients, t \in DOMAIN tasks :
        SvcReleaseTask_Check(h, t) /\ UNCHANGED cpFrame
ReleaseStep ==
    \E h \in Clients :
        (SvcReleaseTask_Delete(h) \/ SvcReleaseTask_Release(h)) /\ UNCHANGED cpFrame
RunRequest ==
    \E h \in Clients, t \in DOMAIN tasks :
        SvcRunTask_Verify(h, t) /\ UNCHANGED cpFrame
RunStep ==
    \E h \in Clients :
        \/ SvcRunTask_Running(h) /\ UNCHANGED cpFrame
        \/ \E res \in ExecResults : SvcRunTask_Finish(h, res) /\ UNCHANGED cpFrame
RenewRequest ==
    \E h \in Clients, t \in DOMAIN tasks, ttl \in TTLs :
        SvcRenewLease_Check(h, t, ttl) /\ UNCHANGED cpFrame
RenewStep ==
    \E h \in Clients : SvcRenewLease_Renew(h) /\ UNCHANGED cpFrame

ControlPlane ==
    \/ ClaimRequest \/ ClaimStep
    \/ ReleaseRequest \/ ReleaseStep
    \/ RunRequest \/ RunStep
    \/ RenewRequest \/ RenewStep

\* Service.CreateTask: store.CreateTask and the audit record
SubmitCP ==
    /\ Len(tasks) < CpTasks
    /\ CreateTask
    /\ pdr' = Record(pdr, "task.create", "success", Len(tasks) + 1)
    /\ UNCHANGED <<now, lockVars, txHist, lockHist, cpVars, atom, schedVars, txCall, runs, execs, execRet, stampVars, auxVars>>

NextCP == SubmitCP \/ ControlPlane \/ Clock

SpecCP == Init /\ [][NextCP]_vars

\* ------------------------------------ the control plane: claim and release
\* Service.CreateTask called once: the one task T the clients claim, release
\* and run
SubmitOne ==
    /\ tasks = <<>>
    /\ CreateTask
    /\ pdr' = Record(pdr, "task.create", "success", Len(tasks) + 1)
    /\ UNCHANGED <<now, lockVars, txHist, lockHist, cpVars, atom, schedVars, txCall, runs, execs, execRet, stampVars, auxVars>>

NextRelease == SubmitOne \/ ClaimRequest \/ ClaimStep \/ ReleaseRequest \/ ReleaseStep \/ Clock

SpecRelease == Init /\ [][NextRelease]_vars

\* -------------------------------------- the control plane: claim and renew
NextRenew == SubmitOne \/ ClaimRequest \/ ClaimStep \/ RenewRequest \/ RenewStep \/ Clock

SpecRenew == Init /\ [][NextRenew]_vars

\* ---------------------------------------- the control plane: claim and run
NextRun == SubmitOne \/ ClaimRequest \/ ClaimStep \/ RunRequest \/ RunStep \/ Clock

SpecRun == Init /\ [][NextRun]_vars

\* --------------------- the control plane: claim, and run within the second
NextRunHolder == SubmitOne \/ ClaimRequest \/ ClaimStep \/ RunRequest \/ RunStep

SpecRunHolder == Init /\ [][NextRunHolder]_vars

\* ------------- the control plane: claim, and run by who holds no active lease
\* a client calls RunTask on a task it holds no active lease on
RunRequestNoLease ==
    \E h \in Clients, t \in DOMAIN tasks :
        /\ \A l \in ActiveLeases(leases, t, now) : l.holder_id # h
        /\ SvcRunTask_Verify(h, t)
        /\ UNCHANGED cpFrame

NextRunRejected == SubmitOne \/ ClaimRequest \/ ClaimStep \/ RunRequestNoLease \/ Clock

SpecRunRejected == Init /\ [][NextRunRejected]_vars

\* ---------- the control plane: claims, and calls by who holds no active lease
\* a client calls ReleaseTask on a task it holds no active lease on
ReleaseRequestNoLease ==
    \E h \in Clients, t \in DOMAIN tasks :
        /\ \A l \in ActiveLeases(leases, t, now) : l.holder_id # h
        /\ SvcReleaseTask_Check(h, t)
        /\ UNCHANGED cpFrame

\* a client calls RenewLease on a task it holds no active lease on
RenewRequestNoLease ==
    \E h \in Clients, t \in DOMAIN tasks, ttl \in TTLs :
        /\ \A l \in ActiveLeases(leases, t, now) : l.holder_id # h
        /\ SvcRenewLease_Check(h, t, ttl)
        /\ UNCHANGED cpFrame

NextTakeover ==
    SubmitOne \/ ClaimRequest \/ ClaimStep \/ ReleaseRequestNoLease \/ RunRequestNoLease
        \/ RenewRequestNoLease \/ Clock

SpecTakeover == Init /\ [][NextTakeover]_vars

\* ------------------------------------------- transactional claims only
\* a holder calls ClaimTaskWithLeaseTx; the observer notes what it returned
TxClaimCall ==
    \E h \in Holders, t \in DOMAIN tasks, ttl \in TTLs :
        /\ ClaimTaskWithLeaseTx(t, h, ttl)
        /\ LET err == TxClaimOutcome(tasks, leases, nextLease + 1, t, h, ttl, now).err
           IN /\ txOk' = IF err = OK THEN [txOk EXCEPT ![t] = @ + 1] ELSE txOk
              /\ txErrs' = IF err = OK THEN txErrs ELSE txErrs \cup {err}
        /\ UNCHANGED <<now, lockVars, lockHist, cpVars, atom, schedVars, txCall, auditVars, stampVars, auxVars>>

NextTx == Submit \/ TxClaimCall \/ Clock

SpecTx == Init /\ [][NextTx]_vars

\* ---------------------------------------------------- the store API only
storeApiFrame == <<lockVars, txHist, lockHist, cpVars, atom, schedVars, auditVars, stampVars, auxVars>>

\* the holder id the callers of the bare store pass
StoreCaller == "h1"

\* a caller of the store calls ClaimTaskWithLeaseTx with any task id, a row of
\* the table or not; the observer notes the task and the error returned
TxClaimAttempt ==
    \E h \in {StoreCaller}, t \in TaskIds, ttl \in TTLs :
        /\ ClaimTaskWithLeaseTx(t, h, ttl)
        /\ txCall' = [n |-> 1 - txCall.n, task |-> t,
                      err |-> TxClaimOutcome(tasks, leases, nextLease + 1, t, h, ttl, now).err]
        /\ UNCHANGED <<now, storeApiFrame>>

\* store.CreateLease called on its own
StoreCreateLease ==
    \E h \in {StoreCaller}, t \in DOMAIN tasks, ttl \in TTLs :
        CreateLease(t, h, ttl) /\ UNCHANGED <<now, storeApiFrame, txCall>>

\* store.ClaimTask called on its own
StoreClaimTask ==
    \E h \in {StoreCaller}, t \in DOMAIN tasks :
        /\ tasks' = ClaimTask(tasks, t, h)
        /\ tasks' # tasks
        /\ UNCHANGED <<leases, nextLease, now, storeApiFrame, txCall>>

\* store.ReleaseTask called on its own
StoreReleaseTask ==
    \E t \in DOMAIN tasks :
        /\ tasks' = ReleaseTask(tasks, t)
        /\ tasks' # tasks
        /\ UNCHANGED <<leases, nextLease, now, storeApiFrame, txCall>>

\* store.DeleteLease called on its own
StoreDeleteLease ==
    \E l \in leases :
        /\ leases' = DeleteLease(leases, l.id)
        /\ UNCHANGED <<tasks, nextLease, now, storeApiFrame, txCall>>

\* store.CreateTask called on its own
StoreCreateTask ==
    /\ Len(tasks) < CpTasks
    /\ CreateTask
    /\ UNCHANGED <<now, storeApiFrame, txCall>>

NextStore ==
    \/ StoreCreateTask \/ TxClaimAttempt \/ StoreCreateLease \/ StoreClaimTask
    \/ StoreReleaseTask \/ StoreDeleteLease \/ Clock

SpecStore == Init /\ [][NextStore]_vars

\* ------------------------------------- concurrent writes to table tasks
stampFrame == <<lockVars, txHist, lockHist, cpVars, atom, schedVars, txCall, auditVars, auxVars>>

\* what a call of the connector leaves alone
execFrame == <<now, taskVars, lockVars, txHist, lockHist, cpVars, atom, schedVars, txCall,
               auditVars, stampVars, lateStarts, lastPoll, mu, lastRelease, lockReplaced>>

StampCreate ==
    /\ Len(tasks) < CpTasks
    /\ CreateTaskStamped
    /\ UNCHANGED <<now, stampFrame>>

StampBegin ==
    \E g \in Writers, op \in StampOps, t \in DOMAIN tasks :
        StampRead(g, op, t) /\ UNCHANGED <<now, stampFrame>>

StampWrite == \E g \in Writers : StampExec(g) /\ UNCHANGED <<now, stampFrame>>

StampClock == Tick /\ UNCHANGED <<taskVars, stampFrame, stampVars, auxVars>>

NextStamp == StampCreate \/ StampBegin \/ StampWrite \/ StampClock

SpecStamp == Init /\ [][NextStamp]_vars

\* ------------------------------------------------ the connector only
\* a caller of the connector calls Execute
ExecuteCall ==
    \E cmd \in Commands, args \in ArgLists :
        /\ Execute(cmd, args)
        /\ UNCHANGED execFrame

NextExec == ExecuteCall

SpecExec == Init /\ [][NextExec]_vars

\* ------------------------------------------------------- the lock API only
AcquireLockCall ==
    \E h \in Holders, r \in Resources, ttl \in TTLs :
        AcquireLock(r, h, ttl) /\ UNCHANGED <<now, taskVars, txHist, lockHist, cpVars, atom, schedVars, txCall, auditVars, stampVars, auxVars>>

ReleaseLockCall ==
    \E id \in 1..nextLock :
        ReleaseLock(id) /\ UNCHANGED <<now, taskVars, txHist, lockHist, cpVars, atom, schedVars, txCall, auditVars, stampVars, auxVars>>

NextLock == AcquireLockCall \/ ReleaseLockCall \/ Clock

SpecLock == Init /\ [][NextLock]_vars

\* ------------------------------ the lock API, replacements and releases noted
\* a holder calls AcquireLock; when the lock is granted, the expired rows its
\* step 1 deleted are noted
AcquireLockReplacing ==
    \E h \in Holders, r \in Resources, ttl \in TTLs :
        /\ AcquireLock(r, h, ttl)
        /\ LET out == AcquireLockOutcome(locks, nextLock + 1, r, h, ttl, now)
           IN lockReplaced' = IF out.err = OK THEN locks \ out.locks ELSE lockReplaced
        /\ UNCHANGED <<now, taskVars, txHist, lockHist, cpVars, atom, schedVars, txCall,
                       auditVars, stampVars, lexec, lateStarts, lastPoll, mu, lastRelease>>

\* a holder calls ReleaseLock with the id of a lock that was granted
ReleaseLockNoted ==
    \E id \in 1..nextLock :
        /\ ReleaseLock(id)
        /\ lastRelease' = id
        /\ UNCHANGED <<now, taskVars, txHist, lockHist, cpVars, atom, schedVars, txCall,
                       auditVars, stampVars, lexec, lateStarts, lastPoll, mu, lockReplaced>>

NextLockRelease == AcquireLockReplacing \/ ReleaseLockNoted \/ Clock

SpecLockRelease == Init /\ [][NextLockRelease]_vars

\* ---------------------------------- acquire attempts only, results noted
\* the resource the holders race for
RaceResources == {"res-X"}

AcquireLockAttempt ==
    \E h \in Holders, r \in RaceResources, ttl \in TTLs :
        /\ AcquireLock(r, h, ttl)
        /\ LET out == AcquireLockOutcome(locks, nextLock + 1, r, h, ttl, now)
           IN /\ lockGrants' = IF out.err = OK THEN lockGrants \cup {out.lock}
                                ELSE lockGrants
              /\ lockFails' = IF out.err = OK THEN lockFails
                              ELSE [lockFails EXCEPT ![r] = @ \cup {<<now, out.err>>}]
        /\ UNCHANGED <<now, taskVars, txHist, cpVars, atom, schedVars, txCall, auditVars, stampVars, auxVars>>

NextLockRace == AcquireLockAttempt \/ Clock

SpecLockRace == Init /\ [][NextLockRace]_vars

\* ------------------------------------------------------ the scheduler only
storeFrame == <<now, lockVars, txHist, lockHist, cpVars, atom, txCall, runs, execs, execRet, stampVars, auxVars>>

SubmitSched ==
    /\ Len(tasks) < NumTasks
    /\ CreateTask
    /\ pdr' = Record(pdr, "task.create", "success", Len(tasks) + 1)
    /\ UNCHANGED <<now, lockVars, txHist, lockHist, cpVars, atom, schedVars, txCall, runs, execs, execRet, stampVars, auxVars>>

\* main: sched.Start()
MainStart ==
    /\ mainPc = "init"
    /\ Start
    /\ mainPc' = "serving"
    /\ UNCHANGED <<storeFrame, taskVars, pdr>>

\* main, on a signal or a server error: the deferred sched.Stop() begins
MainStop ==
    /\ mainPc = "serving"
    /\ Cancel
    /\ mainPc' = "waiting"
    /\ UNCHANGED <<storeFrame, taskVars, pdr>>

\* main: sched.Stop() returns
MainStopped ==
    /\ mainPc = "waiting"
    /\ WaitReturns
    /\ mainPc' = "stopped"
    /\ UNCHANGED <<storeFrame, taskVars, pdr>>

\* the poll loop i takes the ctx.Done case of its select
LoopExit(i) == LoopReturn(i) /\ UNCHANGED <<storeFrame, taskVars, mainPc, pdr>>

\* a step of the poll loop i
LoopRun(i) ==
        \/ LoopExit(i)
        \/ PollCheck(i) /\ UNCHANGED <<storeFrame, taskVars, mainPc, pdr>>
        \/ PollClaim(i) /\ UNCHANGED <<storeFrame, mainPc>>
        \/ PollCount(i) /\ UNCHANGED <<storeFrame, taskVars, mainPc, pdr>>
        \/ PollSpawn(i) /\ UNCHANGED <<storeFrame, taskVars, mainPc, pdr>>

LoopStep == \E i \in DOMAIN loops : LoopRun(i)

workerFrame == <<storeFrame, nextLease, config, ctxDone, mainPc, loops, nextWorker, pdr>>

\* a step of the worker w
WorkerRun(w) ==
        \/ WorkerInterrupted(w)
           /\ UNCHANGED <<workerFrame, activeWorkers, connectorCounts, workers, wg>>
        \/ WorkerTimer(w)
           /\ UNCHANGED <<workerFrame, activeWorkers, connectorCounts, workers, wg>>
        \/ WorkerComplete(w)
           /\ UNCHANGED <<workerFrame, activeWorkers, connectorCounts, workers, wg>>
        \/ WorkerCompleteFails(w)
           /\ UNCHANGED <<workerFrame, activeWorkers, connectorCounts, workers, wg>>
        \/ WorkerRelease(w)
           /\ UNCHANGED <<workerFrame, activeWorkers, connectorCounts, workers, wg>>
        \/ WorkerDeleteLease(w)
           /\ UNCHANGED <<workerFrame, activeWorkers, connectorCounts, workers, wg>>
        \/ WorkerDecrement(w) /\ UNCHANGED <<workerFrame, taskVars, wg>>
        \/ WorkerDone(w)
           /\ UNCHANGED <<workerFrame, taskVars, activeWorkers, connectorCounts, workers>>

WorkerStep == \E w \in DOMAIN wk : WorkerRun(w)

NextSched == SubmitSched \/ MainStart \/ MainStop \/ MainStopped \/ LoopStep \/ WorkerStep

SpecSched == InitSched /\ [][NextSched]_vars

\* the ids of the workers a run can spawn
WorkerIds == {WorkerID(n) : n \in 1..MaxLeases}

\* a poll loop takes the ctx.Done case of its select
LoopExitStep == \E i \in DOMAIN loops : LoopExit(i)

\* The scheduler with the progress its runtime gives it.  While some worker
\* can take a step, a worker takes one, and the same for the poll loop and
\* for main's wg.Wait (store calls return, time.After fires): weak fairness.
\* A select with ctx.Done and ticker.C both ready chooses at random, so a
\* cancelled loop is not kept from the ctx.Done case for ever: strong
\* fairness of LoopExitStep.
FairSched ==
    /\ WF_vars(WorkerStep)
    /\ WF_vars(LoopStep)
    /\ SF_vars(LoopExitStep)
    /\ WF_vars(MainStopped)

SpecSchedFair == InitSched /\ [][NextSched]_vars /\ FairSched

\* ----------------------------- the scheduler, the result of each poll noted
pollFrame == <<now, lockVars, txHist, lockHist, cpVars, atom, txCall, runs, execs, execRet,
               stampVars, lexec, lateStarts, mu, lastRelease, lockReplaced>>

\* how the poll that loop i has just gone through ended: at one of the returns
\* of pollAndDispatch, or with a dispatch
PollResult(i) ==
    IF loops[i].pc = "select" /\ loops'[i].pc = "select" THEN "capacity"
    ELSE IF loops[i].pc = "claim" /\ loops'[i].pc = "select"
         THEN IF PendingTasks(tasks) = {} THEN "no_task" ELSE "error"
    ELSE IF loops[i].pc = "claim" THEN "dispatched"
    ELSE lastPoll

\* a step of the poll loop i, its result noted
LoopRunNoted(i) ==
    /\ \/ LoopReturn(i) /\ UNCHANGED <<pollFrame, taskVars, mainPc, pdr>>
       \/ PollCheck(i) /\ UNCHANGED <<pollFrame, taskVars, mainPc, pdr>>
       \/ PollClaim(i) /\ UNCHANGED <<pollFrame, mainPc>>
       \/ PollCount(i) /\ UNCHANGED <<pollFrame, taskVars, mainPc, pdr>>
       \/ PollSpawn(i) /\ UNCHANGED <<pollFrame, taskVars, mainPc, pdr>>
    /\ lastPoll' = PollResult(i)

LoopStepNoted == \E i \in DOMAIN loops : LoopRunNoted(i)

NextPoll == SubmitSched \/ MainStart \/ MainStop \/ MainStopped \/ LoopStepNoted \/ WorkerStep

SpecPoll == InitSched /\ [][NextPoll]_vars

\* --------------------------------------- the scheduler, sch.mu followed
muFrame == <<now, lockVars, txHist, lockHist, cpVars, atom, txCall, runs, execs, execRet,
             stampVars, lexec, lateStarts, lastPoll, lastRelease, lockReplaced>>

\* a step of the poll loop i, with the Lock and Unlock calls of pollAndDispatch
LoopRunMu(i) ==
    \/ /\ Unlocked(LoopID(i)) /\ LoopReturn(i)
       /\ UNCHANGED <<muFrame, mu, taskVars, mainPc, pdr>>
    \/ /\ loops[i].pc = "select" /\ nextLease < MaxLeases
       /\ MuLock(LoopID(i))
       /\ UNCHANGED <<muFrame, schedVars, taskVars, pdr>>
    \/ /\ MuBody(LoopID(i)) /\ PollCheck(i)
       /\ UNCHANGED <<muFrame, taskVars, mainPc, pdr>>
    \/ /\ MuUnlock(LoopID(i))
       /\ UNCHANGED <<muFrame, schedVars, taskVars, pdr>>
    \/ /\ Unlocked(LoopID(i)) /\ PollClaim(i)
       /\ UNCHANGED <<muFrame, mu, mainPc>>
    \/ /\ loops[i].pc = "count"
       /\ MuLock(LoopID(i))
       /\ UNCHANGED <<muFrame, schedVars, taskVars, pdr>>
    \/ /\ MuBody(LoopID(i)) /\ PollCount(i)
       /\ UNCHANGED <<muFrame, taskVars, mainPc, pdr>>
    \/ /\ Unlocked(LoopID(i)) /\ PollSpawn(i)
       /\ UNCHANGED <<muFrame, mu, taskVars, mainPc, pdr>>

LoopStepMu == \E i \in DOMAIN loops : LoopRunMu(i)

muWorkerFrame == <<muFrame, nextLease, config, ctxDone, mainPc, loops, nextWorker, pdr>>

\* a step of the worker w, with the Lock and Unlock calls of its deferred
\* decrement
WorkerRunMu(w) ==
    \/ /\ Unlocked(w)
       /\ \/ WorkerInterrupted(w)
          \/ WorkerTimer(w)
          \/ WorkerComplete(w)
          \/ WorkerCompleteFails(w)
          \/ WorkerRelease(w)
          \/ WorkerDeleteLease(w)
       /\ UNCHANGED <<muWorkerFrame, mu, activeWorkers, connectorCounts, workers, wg>>
    \/ /\ wk[w].pc = "decrement"
       /\ MuLock(w)
       /\ UNCHANGED <<muFrame, schedVars, taskVars, pdr>>
    \/ /\ MuBody(w) /\ WorkerDecrement(w)
       /\ UNCHANGED <<muWorkerFrame, taskVars, wg>>
    \/ /\ MuUnlock(w)
       /\ UNCHANGED <<muFrame, schedVars, taskVars, pdr>>
    \/ /\ Unlocked(w) /\ WorkerDone(w)
       /\ UNCHANGED <<muWorkerFrame, mu, taskVars, activeWorkers, connectorCounts, workers>>

WorkerStepMu == \E w \in DOMAIN wk : WorkerRunMu(w)

NextMu == SubmitSched \/ MainStart \/ MainStop \/ MainStopped \/ LoopStepMu \/ WorkerStepMu

SpecMu == InitSched /\ [][NextMu]_vars

\* ------------------------------------ the scheduler, Start called again
\* a caller calls Start on the scheduler main has started
StartAgain ==
    /\ mainPc = "serving"
    /\ Len(loops) < MaxLoops
    /\ Start
    /\ UNCHANGED <<storeFrame, taskVars, mainPc, pdr>>

NextStartAgain == NextSched \/ StartAgain

SpecStartAgain == InitSched /\ [][NextStartAgain]_vars

\* ------------------------------------ the scheduler, Start after Stop
\* a caller calls Start when Stop has cancelled the context
StartLate ==
    /\ mainPc \in {"waiting", "stopped"}
    /\ lateStarts < MaxLateStarts
    /\ Start
    /\ lateStarts' = lateStarts + 1
    /\ UNCHANGED <<now, lockVars, txHist, lockHist, cpVars, atom, txCall, runs, execs,
                   execRet, stampVars, lexec, lastPoll, mu, lastRelease, lockReplaced, taskVars, mainPc, pdr>>

NextStartLate == NextSched \/ StartLate

SpecStartLate == InitSched /\ [][NextStartLate]_vars

\* ------------------------- the scheduler and claims of the control plane
\* the time of a scheduler lease passes
LeaseTime ==
    /\ now < MaxTime * ClaimTTL
    /\ now' = now + ClaimTTL
    /\ UNCHANGED <<taskVars, lockVars, txHist, lockHist, cpVars, atom, schedVars, txCall,
                   auditVars, stampVars, auxVars>>

NextShared ==
    SubmitCP \/ MainStart \/ MainStop \/ MainStopped \/ LoopStep \/ WorkerStep
        \/ ClaimRequest \/ ClaimStep \/ LeaseTime

SpecShared == InitSched /\ [][NextShared]_vars

\* ------------------ the scheduler running on, its store calls succeeding
\* a step of the worker w when UpdateTaskStatus succeeds and the context is
\* not cancelled
WorkerRunOk(w) ==
    \/ WorkerTimer(w)
       /\ UNCHANGED <<workerFrame, activeWorkers, connectorCounts, workers, wg>>
    \/ WorkerComplete(w)
       /\ UNCHANGED <<workerFrame, activeWorkers, connectorCounts, workers, wg>>
    \/ WorkerDeleteLease(w)
       /\ UNCHANGED <<workerFrame, activeWorkers, connectorCounts, workers, wg>>
    \/ WorkerDecrement(w) /\ UNCHANGED <<workerFrame, taskVars, wg>>
    \/ WorkerDone(w)
       /\ UNCHANGED <<workerFrame, taskVars, activeWorkers, connectorCounts, workers>>

WorkerStepOk == \E w \in DOMAIN wk : WorkerRunOk(w)

NextRunning == SubmitSched \/ MainStart \/ LoopStep \/ WorkerStepOk

\* the ticker keeps firing and the store calls of a poll return; the timers of
\* the workers fire and their store calls return
FairRunning == WF_vars(LoopStep) /\ WF_vars(WorkerStepOk)

SpecRunning == InitSched /\ [][NextRunning]_vars /\ FairRunning

\* ------------------- the scheduler on tasks created before it is started
\* the tasks are created before Start, as in Test10ParallelWorkers
SubmitBeforeStart == mainPc = "init" /\ SubmitSched

StartOnTasks == Len(tasks) >= 1 /\ MainStart

\* a worker has been spawned for every task there was at Start
AllSpawned ==
    /\ nextWorker >= Len(tasks)
    /\ \A i \in DOMAIN loops : loops[i].pc = "select"

\* workerDuration is long enough: the timers fire, and Stop is called, when a
\* worker has been spawned for every task
HeldWorkerStep == AllSpawned /\ WorkerStep

StopAfterSpawns == AllSpawned /\ MainStop

NextParallel ==
    SubmitBeforeStart \/ StartOnTasks \/ LoopStep \/ HeldWorkerStep \/ StopAfterSpawns
        \/ MainStopped

\* the ticker keeps firing and the store calls of a poll return
FairPoll == WF_vars(LoopStep)

SpecParallel == InitSched /\ [][NextParallel]_vars /\ FairPoll

\* ------------------------------------- claim-any-pending attempts only

\* the tasks are submitted before the attempts begin
SubmitAtomic ==
    /\ atom.attempts = 0
    /\ Len(tasks) < NumTasks
    /\ CreateTask
    /\ UNCHANGED <<now, lockVars, txHist, lockHist, cpVars, atom, schedVars, txCall, auditVars, stampVars, auxVars>>

\* a holder calls AtomicClaimTask; the observer notes what it returned
AtomicClaimAttempt ==
    \E h \in Holders, ttl \in TTLs :
        /\ atom.attempts < MaxAttempts
        /\ \E out \in AtomicClaimOutcomes(tasks, leases, nextLease + 1, h, ttl, now) :
            /\ AtomicClaimTask(out)
            /\ atom' = [attempts |-> atom.attempts + 1,
                        ok |-> atom.ok + (IF out.err = OK /\ out.task # 0 THEN 1 ELSE 0),
                        none |-> atom.none + (IF out.err = OK /\ out.task = 0 THEN 1 ELSE 0),
                        errs |-> atom.errs + (IF out.err # OK THEN 1 ELSE 0),
                        claimed |-> IF out.task # 0 THEN atom.claimed \cup {out.task}
                                    ELSE atom.claimed]
        /\ UNCHANGED <<now, lockVars, txHist, lockHist, cpVars, schedVars, txCall, auditVars, stampVars, auxVars>>

NextAtomic == SubmitAtomic \/ AtomicClaimAttempt \/ Clock

SpecAtomic == Init /\ [][NextAtomic]_vars

\* ------------------------------------------------------------------ claims

\* C1: whatever the interleaving of ClaimTaskWithLeaseTx calls by the holders on
\* a task, at most one call on that task returns success, and every call that
\* does not returns ErrTaskNotClaimable or ErrTaskAlreadyLeased.
C1_AtMostOneTxClaim ==
    /\ \A t \in TaskIds : txOk[t] <= 1
    /\ txErrs \subseteq {ErrTaskNotClaimable, ErrTaskAlreadyLeased}

\* one call on a task has succeeded, a later one has been refused, and the
\* winner's lease has expired since
C1_Witness ==
    \E t \in DOMAIN tasks :
        /\ txOk[t] = 1
        /\ txErrs # {}
        /\ tasks[t].claimed_by \in Holders
        /\ ActiveLeases(leases, t, now) = {}

\* C2: every task whose status is claimed or running has exactly one lease with
\* expires_at > now, and the holder_id of that lease is the task's non-empty
\* claimed_by.
C2_ClaimedHasOneLease ==
    \A t \in DOMAIN tasks :
        tasks[t].status \in {TaskStatusClaimed, TaskStatusRunning}
        => /\ tasks[t].claimed_by # NoHolder
           /\ \E l \in leases :
                 /\ ActiveLeases(leases, t, now) = {l}
                 /\ l.holder_id = tasks[t].claimed_by

\* C3: for every task_id at most one lease has expires_at > now.
C3_OneActiveLease ==
    \A t \in DOMAIN tasks : Cardinality(ActiveLeases(leases, t, now)) <= 1

\* C4: every task whose status is pending has claimed_by unset and no lease with
\* expires_at > now, at every point of the worker exit path and of the release verb.
C4_PendingUnleased ==
    \A t \in DOMAIN tasks :
        tasks[t].status = TaskStatusPending
        => /\ tasks[t].claimed_by = NoHolder
           /\ ActiveLeases(leases, t, now) = {}

\* C5: when claim_task returns a lease to a holder, no other holder has a lease
\* with expires_at > now on that task (a concurrent claim_task was refused with
\* ErrAlreadyClaimed), and the task's claimed_by is that holder.
C5_OneClaimWins ==
    [][(cpRet' # cpRet /\ cpRet'.op = "claim" /\ cpRet'.err = OK)
       => /\ \A l \in ActiveLeases(leases', cpRet'.task, now') :
                l.holder_id = cpRet'.holder
          /\ tasks'[cpRet'.task].claimed_by = cpRet'.holder]_vars

Min(a, b) == IF a <= b THEN a ELSE b

\* C6: after N AtomicClaimTask attempts on M pending tasks, exactly min(N, M)
\* attempts have claimed a task, each a distinct task, every other attempt has
\* returned "no pending task", and none has returned an error.
C6_ExactlyMinSucceed ==
    /\ atom.ok = Min(atom.attempts, Len(tasks))
    /\ Cardinality(atom.claimed) = atom.ok
    /\ atom.none = atom.attempts - atom.ok
    /\ atom.errs = 0

\* more attempts than tasks: every task claimed, the last attempts got none
C6_Witness ==
    /\ Len(tasks) >= 2
    /\ atom.attempts > Len(tasks)
    /\ atom.ok = Len(tasks)
    /\ atom.none >= 1

\* C7: for every resource_id at most one row of locks has expires_at > now.
C7_OneActiveLock ==
    \A r \in Resources : Cardinality(ActiveLocks(locks, r, now)) <= 1

\* a resource whose lock was released or expired holds an active lock of a
\* later acquire, while the other resource is locked too
C7_Witness ==
    /\ \E l \in ActiveLocks(locks, "res-X", now) : l.id >= 2 /\ l.created_at > 0
    /\ ActiveLocks(locks, "res-Y", now) # {}

\* the locks AcquireLock has granted on a resource
Grants(r) == {g \in lockGrants : g.resource_id = r}

\* C8: among the acquire_lock attempts on a resource, the attempts made while a
\* granted lock is within its TTL all fail with ErrResourceLocked and no attempt
\* fails otherwise, so exactly one attempt per TTL window succeeds; the row of
\* the winner stays as granted until it expires.
C8_OneWinner ==
    \A r \in Resources :
        /\ \A g1, g2 \in Grants(r) :
              g1 # g2 => \/ g1.expires_at <= g2.created_at
                         \/ g2.expires_at <= g1.created_at
        /\ \A f \in lockFails[r] :
              /\ f[2] = ErrResourceLocked
              /\ \E g \in Grants(r) : g.created_at <= f[1] /\ f[1] < g.expires_at
        /\ \A g \in Grants(r) :
              now < g.expires_at => {l \in locks : l.resource_id = r} = {g}

\* a lock granted after an earlier one expired is held within its TTL, and an
\* attempt made within that TTL has failed
C8_Witness ==
    \E r \in Resources : \E g \in Grants(r) :
        /\ now < g.expires_at
        /\ \E g0 \in Grants(r) : g0.expires_at <= g.created_at /\ g0.holder_id # g.holder_id
        /\ \E f \in lockFails[r] : g.created_at <= f[1] /\ f[1] < g.expires_at

\* C9: an acquire_lock on a resource whose only row has expires_at <= now
\* succeeds, leaves the new lock as the only row of the resource, and get_lock
\* then returns it; get_lock never returns a row whose expires_at <= now.
C9_ExpiredReclaim ==
    /\ [][\A r \in Resources :
            ((\E l \in locks : l.resource_id = r) /\ ActiveLocks(locks, r, now) = {})
            => /\ lockFails'[r] = lockFails[r]
               /\ \A g \in lockGrants' \ lockGrants :
                     g.resource_id = r
                     => /\ {l \in locks' : l.resource_id = r} = {g}
                        /\ g.expires_at > now' => GetLock(locks', r, now') = {g}]_vars
    /\ [](\A r \in Resources : \A l \in GetLock(locks, r, now) : l.expires_at > now)

\* an expired lock of one holder has been replaced by the lock of another
C9_Witness ==
    \E g1, g2 \in lockGrants :
        /\ g1.resource_id = g2.resource_id
        /\ g1.holder_id # g2.holder_id
        /\ 0 < g1.expires_at - g1.created_at
        /\ g1.expires_at <= g2.created_at
        /\ GetLock(locks, g2.resource_id, now) = {g2}

\* C10: active_workers <= global_max and, for every connector n,
\* connector_counts[n] <= the connector's limit, in every state of the scheduler
\* the daemon has started.
C10_WithinCaps ==
    /\ activeWorkers <= config.GlobalMax
    /\ \A n \in DOMAIN connectorCounts :
           connectorCounts[n] <= GetConnectorLimit(config, n)

\* a worker has exited, the scheduler is at both caps again, a task is pending
\* and the poll loop waits for its next tick
C10_Witness ==
    /\ ~ctxDone
    /\ nextWorker >= 2
    /\ activeWorkers = config.GlobalMax
    /\ Count(connectorCounts, ConnectorName) = GetConnectorLimit(config, ConnectorName)
    /\ PendingTasks(tasks) # {}
    /\ \E i \in DOMAIN loops : loops[i].pc = "select"

\* C11: in every state in which the scheduler mutex is free, active_workers is
\* the number of WorkerInfo entries and connector_counts[n] is the number of
\* WorkerInfo entries of connector n, for every connector name n.
C11_CountsMatchWorkerInfo ==
    /\ activeWorkers = Cardinality(DOMAIN workers)
    /\ \A n \in DOMAIN connectorCounts \cup {ConnectorName} :
           Count(connectorCounts, n) =
               Cardinality({w \in DOMAIN workers : workers[w].ConnectorName = n})

\* two workers have been counted; one has run its decrement and is about to
\* return, the other still holds its task and has its WorkerInfo entry
C11_Witness ==
    /\ nextWorker >= 2
    /\ activeWorkers = 1
    /\ \E w \in DOMAIN wk : wk[w].pc = "done"
    /\ \E w \in DOMAIN wk : wk[w].pc = "hold" /\ w \in DOMAIN workers

\* the workers that have been dispatched and have not run their decrement yet
Undecremented ==
    {w \in DOMAIN wk : wk[w].pc # "done"}
        \cup {loops[i].worker : i \in {j \in DOMAIN loops : loops[j].pc = "spawn"}}

\* C12: every spawned worker is counted in active_workers and
\* connector_counts and has its WorkerInfo entry until its deferred decrement,
\* and is uncounted with its entry removed from then on, on every exit path;
\* the counters are never negative.
C12_DecrementedOnce ==
    /\ activeWorkers = Cardinality(Undecremented)
    /\ Count(connectorCounts, ConnectorName) = Cardinality(Undecremented)
    /\ DOMAIN workers = Undecremented
    /\ activeWorkers >= 0
    /\ \A n \in DOMAIN connectorCounts : connectorCounts[n] >= 0

\* two workers have exited, one after completing its task and one after
\* releasing it, and the counters are back at 0
C12_Witness ==
    /\ nextWorker = 2
    /\ wk = NoEntries
    /\ activeWorkers = 0
    /\ Count(connectorCounts, ConnectorName) = 0
    /\ \E t \in DOMAIN tasks : tasks[t].status = TaskStatusCompleted
    /\ \E t \in DOMAIN tasks : tasks[t].status = TaskStatusPending

\* worker w has been dispatched (its claim is committed) and has not returned
Dispatched(w) ==
    \/ w \in DOMAIN wk
    \/ \E i \in DOMAIN loops : loops[i].worker = w

\* at the end of worker w's exit path: its lease row is deleted, and its task
\* is completed when the worker did not set released, and pending with
\* claimed_by cleared when it did
ExitPost(w, ts, ls) ==
    /\ \A l \in ls : l.id # wk[w].lease
    /\ IF wk[w].released
       THEN ts[wk[w].task] = [status |-> TaskStatusPending, claimed_by |-> NoHolder]
       ELSE ts[wk[w].task].status = TaskStatusCompleted

\* C13 as stated: every dispatched worker eventually exits, and in the state in
\* which it has exited its lease row is deleted and its task is completed
\* (duration elapsed and completion update succeeded) or else pending with
\* claimed_by cleared.
C13_ExitRestores ==
    /\ \A w \in WorkerIds : []<>(~Dispatched(w))
    /\ [][\A w \in DOMAIN wk : w \notin DOMAIN wk' => ExitPost(w, tasks', leases')]_vars

\* C13 amended: every dispatched worker eventually exits; when the last store
\* call of its exit path (DeleteLease) has returned, its lease row is deleted
\* and its task is completed or else pending with claimed_by cleared; when the
\* worker has exited this still holds unless another worker has claimed the
\* released task in between.
C13_ExitRestoresUnlessReclaimed ==
    /\ \A w \in WorkerIds : []<>(~Dispatched(w))
    /\ [][\A w \in DOMAIN wk :
            /\ (wk[w].pc = "delete" /\ wk'[w].pc = "decrement")
               => ExitPost(w, tasks', leases')
            /\ w \notin DOMAIN wk'
               => \/ ExitPost(w, tasks', leases')
                  \/ /\ wk[w].released
                     /\ \A l \in leases' : l.id # wk[w].lease
                     /\ tasks'[wk[w].task].claimed_by \notin {w, NoHolder}]_vars

\* a worker that released its task has exited, and the task is pending with
\* claimed_by cleared and without a lease, while the scheduler is not stopped
C13_Witness ==
    /\ ~ctxDone
    /\ nextWorker >= 1
    /\ wk = NoEntries
    /\ \A i \in DOMAIN loops : loops[i].pc = "select"
    /\ leases = {}
    /\ \E t \in DOMAIN tasks :
           tasks[t] = [status |-> TaskStatusPending, claimed_by |-> NoHolder]
    /\ \A t \in DOMAIN tasks : tasks[t].status # TaskStatusCompleted
    /\ Len(tasks) = 1

\* C14: while a worker that releases its task runs the store calls of its exit
\* path, the task is either claimed with a lease with expires_at > now or
\* pending with no such lease.
C14_ReleaseThenDelete ==
    \A w \in DOMAIN wk :
        (wk[w].released /\ wk[w].pc \in {"release", "delete"})
        => LET t == wk[w].task
           IN \/ /\ tasks[t].status = TaskStatusClaimed
                 /\ ActiveLeases(leases, t, now) # {}
              \/ /\ tasks[t].status = TaskStatusPending
                 /\ ActiveLeases(leases, t, now) = {}

\* C15: once Stop has been called it eventually returns; when it has returned
\* the poll loop and every spawned worker have returned, active_workers is 0
\* and WorkerInfo is empty; and no worker is dispatched or spawned afterwards.
C15_StopDrains ==
    /\ []<>(mainPc # "waiting")
    /\ [](mainPc = "stopped"
            => /\ \A i \in DOMAIN loops : loops[i].pc = "returned"
               /\ wk = NoEntries
               /\ activeWorkers = 0
               /\ workers = NoEntries)
    /\ [][mainPc = "stopped" => (wk' = wk /\ nextWorker' = nextWorker)]_vars

\* Stop has returned after a worker had been dispatched; the worker's task is
\* back in pending
C15_Witness ==
    /\ mainPc = "stopped"
    /\ nextWorker >= 1
    /\ Len(tasks) >= 1
    /\ \A t \in DOMAIN tasks : tasks[t].status = TaskStatusPending

\* C16: once the status of a task is completed or failed, no step changes it.
C16_TerminalStays ==
    [][\A t \in DOMAIN tasks :
          tasks[t].status \in {TaskStatusCompleted, TaskStatusFailed}
          => tasks'[t].status = tasks[t].status]_vars

\* the status changes of the state machine
Transitions ==
    {<<TaskStatusPending, TaskStatusClaimed>>,
     <<TaskStatusClaimed, TaskStatusRunning>>,
     <<TaskStatusRunning, TaskStatusCompleted>>,
     <<TaskStatusRunning, TaskStatusFailed>>,
     <<TaskStatusClaimed, TaskStatusPending>>}

\* C17: every change of a task's status is a transition of the state machine:
\* pending to claimed, claimed to running, running to completed or failed,
\* claimed back to pending.
C17_StateMachine ==
    [][\A t \in DOMAIN tasks :
          tasks'[t].status # tasks[t].status
          => <<tasks[t].status, tasks'[t].status>> \in Transitions]_vars


\* C18: a ClaimTaskWithLeaseTx call returns ErrTaskNotClaimable when the task
\* does not exist or is not pending, ErrTaskAlreadyLeased when the task is
\* pending with an active lease, and every call that fails leaves the task rows
\* and the set of leases exactly as they were before the call.
C18_FailedClaimChangesNothing ==
    [][txCall' # txCall =>
        LET t == txCall'.task
            err == txCall'.err
        IN /\ (t \notin DOMAIN tasks \/ tasks[t].status # TaskStatusPending)
                => err = ErrTaskNotClaimable
           /\ (t \in DOMAIN tasks /\ tasks[t].status = TaskStatusPending
                  /\ ActiveLeases(leases, t, now) # {})
                => err = ErrTaskAlreadyLeased
           /\ err # OK => (tasks' = tasks /\ leases' = leases /\ nextLease' = nextLease)]_vars

\* a call on a pending task with an active lease has returned ErrTaskAlreadyLeased,
\* and the task is pending and leased still
C18_Witness ==
    /\ txCall.err = ErrTaskAlreadyLeased
    /\ txCall.task \in DOMAIN tasks
    /\ tasks[txCall.task].status = TaskStatusPending
    /\ ActiveLeases(leases, txCall.task, now) # {}

\* the step begins a call of the verb op by client h: h was idle and either has
\* the verb in progress after it or has been returned its result
CallBegins(h, op) ==
    /\ cp[h] = Idle
    /\ \/ cp'[h].op = op
       \/ cpRet' # cpRet /\ cpRet'.holder = h /\ cpRet'.op = op

\* the task the call that begins is about
CallTask(h, op) == IF cp'[h].op = op THEN cp'[h].task ELSE cpRet'.task

\* C19: release_task by a client on a task whose active lease is held by
\* another holder returns ErrNotOwner, and release_task on a task with no active
\* lease returns ErrNoLease; both leave the task rows, the lease rows and the
\* audit log as they were.
C19_RejectedReleaseChangesNothing ==
    [][\A h \in Clients :
        CallBegins(h, "release") =>
            LET t == CallTask(h, "release")
                act == ActiveLeases(leases, t, now)
                same == tasks' = tasks /\ leases' = leases /\ pdr' = pdr
            IN /\ act = {} =>
                    (cp' = cp /\ cpRet' = Ret(h, "release", t, ErrNoLease, 0) /\ same)
               /\ (act # {} /\ \A l \in act : l.holder_id # h) =>
                    (cp' = cp /\ cpRet' = Ret(h, "release", t, ErrNotOwner, 0) /\ same)]_vars

\* a release by a client has been turned down with ErrNotOwner on a task another
\* holder has claimed under an active lease, with no release on record
C19_Witness ==
    /\ cpRet.op = "release" /\ cpRet.err = ErrNotOwner
    /\ cpRet.task \in DOMAIN tasks
    /\ tasks[cpRet.task].status = TaskStatusClaimed
    /\ tasks[cpRet.task].claimed_by # cpRet.holder
    /\ \E l \in ActiveLeases(leases, cpRet.task, now) : l.holder_id = tasks[cpRet.task].claimed_by
    /\ \A r \in BagToSet(pdr) : r.action # "task.release"

\* C20: run_task by a client that holds no active lease on the task (no lease,
\* an expired lease or another holder's lease) returns ErrNotOwner, changes no
\* task status, creates no run row and does not invoke the connector.
C20_RejectedRunChangesNothing ==
    [][\A h \in Clients :
        CallBegins(h, "run") =>
            LET t == CallTask(h, "run")
            IN (\A l \in ActiveLeases(leases, t, now) : l.holder_id # h) =>
                   /\ cp' = cp
                   /\ cpRet' = Ret(h, "run", t, ErrNotOwner, 0)
                   /\ tasks' = tasks /\ runs' = runs /\ execs' = execs]_vars

\* a run by the client whose lease on the task has expired has been turned down
\* with ErrNotOwner: the task is claimed still, with no run row and no execution
C20_Witness ==
    /\ cpRet.op = "run" /\ cpRet.err = ErrNotOwner
    /\ cpRet.task \in DOMAIN tasks
    /\ tasks[cpRet.task] = [status |-> TaskStatusClaimed, claimed_by |-> cpRet.holder]
    /\ \E l \in leases : /\ l.task_id = cpRet.task /\ l.holder_id = cpRet.holder
                          /\ l.created_at < l.expires_at /\ l.expires_at <= now
    /\ runs = <<>> /\ execs = 0

\* C21: a run_task of the lease holder is classified from what the connector
\* returned alone: an error gives the run exit code -1, the audit outcome error
\* and the task failed; exit code 0 gives outcome success and the task
\* completed; a nonzero exit code gives outcome failed and the task failed;
\* and the call has set the task running before it executes the command.
C21_RunClassified ==
    [][\A h \in Clients :
        /\ (cp[h].op = "run" /\ cp[h].pc = "running" /\ cp'[h] # cp[h]) =>
              /\ cp'[h].pc = "execute"
              /\ tasks'[cp[h].task].status = TaskStatusRunning
        /\ (cp[h].op = "run" /\ cp[h].pc # "running" /\ cp'[h] # cp[h]) =>
              LET t == cp[h].task
                  res == execRet'
                  row(e) == [task_id |-> t, exit |-> <<e>>]
              IN /\ cp[h].pc = "execute" /\ cp'[h] = Idle
                 /\ execs' = execs + 1
                 /\ cpRet' = Ret(h, "run", t, OK, cp[h].lease)
                 /\ res.err =>
                       /\ runs'[cp[h].run] = row(-1)
                       /\ pdr' = Record(pdr, "task.run", "error", t)
                       /\ tasks'[t].status = TaskStatusFailed
                 /\ (~res.err /\ res.exit = 0) =>
                       /\ runs'[cp[h].run] = row(0)
                       /\ pdr' = Record(pdr, "task.run", "success", t)
                       /\ tasks'[t].status = TaskStatusCompleted
                 /\ (~res.err /\ res.exit # 0) =>
                       /\ runs'[cp[h].run] = row(res.exit)
                       /\ pdr' = Record(pdr, "task.run", "failed", t)
                       /\ tasks'[t].status = TaskStatusFailed]_vars

\* a run of the lease holder has ended on an error of the connector: exit code
\* -1 in the run row, outcome error on record, the task failed
C21_Witness ==
    /\ cpRet.op = "run" /\ cpRet.err = OK
    /\ execRet.err /\ execs = 1
    /\ \E r \in DOMAIN runs : runs[r] = [task_id |-> cpRet.task, exit |-> <<-1>>]
    /\ \E r \in BagToSet(pdr) :
          r.action = "task.run" /\ r.task_id = cpRet.task /\ r.outcome = "error"
    /\ tasks[cpRet.task].status = TaskStatusFailed

\* the number of audit records of an action about a task
Recorded(action, t) ==
    BagCardinality(BagOfAll(LAMBDA r : r.action,
        [r \in {x \in BagToSet(pdr) : x.task_id = t /\ x.action = action} |-> pdr[r]]))

\* the calls so far are create_task, one claim of t by H with ttl > 0 and then
\* release(H), which has returned last (calls that were turned down without
\* effect aside)
RoundTripOf(H, t) ==
    /\ t \in DOMAIN tasks
    /\ cpRet.op = "release" /\ cpRet.holder = H /\ cpRet.task = t
    /\ \A g \in Clients : cp[g] = Idle
    /\ nextLease = 1
    /\ \A l \in leases : l.task_id = t /\ l.holder_id = H /\ l.expires_at > l.created_at
    /\ (leases = {}) = (cpRet.err = OK)

\* the task is as right after its creation: any holder's claim of it succeeds
Claimable(t) ==
    /\ tasks[t] = [status |-> TaskStatusPending, claimed_by |-> NoHolder]
    /\ ActiveLeases(leases, t, now) = {}
    /\ \A g \in Holders, ttl \in TTLs :
          TxClaimOutcome(tasks, leases, nextLease + 1, t, g, ttl, now).err = OK

\* C22 as stated: after create_task, claim(H, ttl) with ttl > 0 and release(H)
\* the task is pending, claimed by nobody, without an active lease, and any
\* holder's further claim succeeds.
C22_RoundTrip ==
    \A H \in Clients, t \in TaskIds : RoundTripOf(H, t) => Claimable(t)

\* C22 amended: the same for a release(H) that is called before the lease of
\* the claim has expired; such a release is not turned down.
C22_RoundTripBeforeExpiry ==
    /\ [](\A H \in Clients, t \in TaskIds :
            (RoundTripOf(H, t) /\ cpRet.err # ErrNoLease) => Claimable(t))
    /\ [][\A H \in Clients :
            (/\ CallBegins(H, "release")
             /\ nextLease = 1
             /\ \A g \in Clients : cp[g] = Idle
             /\ \E l \in ActiveLeases(leases, CallTask(H, "release"), now) : l.holder_id = H)
            => (cp'[H].op = "release" /\ cp'[H].pc = "delete")]_vars

\* create_task, claim(H, ttl) and release(H) have been called, the release has
\* succeeded and the task is claimable again
C22_Witness ==
    \E H \in Clients, t \in TaskIds :
        /\ RoundTripOf(H, t) /\ cpRet.err = OK
        /\ Claimable(t)
        /\ Recorded("task.claim", t) = 1 /\ Recorded("task.release", t) = 1

\* C23: release_task applied to a task that is pending already is a no-op: the
\* call returns from its lease lookup without a write, the task rows, the lease
\* rows and the audit log being as before (so that a second release after a
\* first changes nothing).
C23_ReleaseOfPendingNoOp ==
    [][\A h \in Clients :
        (/\ CallBegins(h, "release")
         /\ tasks[CallTask(h, "release")] = [status |-> TaskStatusPending, claimed_by |-> NoHolder])
        => (cp' = cp /\ tasks' = tasks /\ leases' = leases /\ pdr' = pdr)]_vars

\* the audit records of log for task t with a non-empty inputs_hash
RecordsOf(log, t) ==
    BagCardinality([r \in {x \in BagToSet(log) : x.task_id = t /\ x.inputs_hash # ""}
                       |-> log[r]])

\* C24: every transition of a task made by the core (its creation, a dispatch
\* by the scheduler, a worker's completion, a worker's release to pending) comes
\* with an audit record for that task with a non-empty inputs_hash.
C24_TransitionsRecorded ==
    [][\A t \in DOMAIN tasks' :
        (t \notin DOMAIN tasks \/ tasks'[t] # tasks[t]) =>
            RecordsOf(pdr', t) > RecordsOf(pdr, t)]_vars

\* C25: every control-plane call that is turned down (claim_task with
\* ErrAlreadyClaimed, release_task with ErrNotOwner or ErrNoLease, run_task with
\* ErrNotOwner) writes one audit record for its task with outcome failed.
C25_FailuresRecorded ==
    [][(cpRet' # cpRet /\ cpRet'.err # OK) =>
        \E r \in BagToSet(pdr') :
            /\ r.task_id = cpRet'.task /\ r.outcome = "failed"
            /\ CopiesIn(r, pdr') = CopiesIn(r, pdr) + 1]_vars

\* C26: the updated_at of a task never decreases from one state to the next and
\* is never below its created_at, whatever the interleaving of the concurrent
\* store writes to the task.
C26_UpdatedAtMonotonic ==
    /\ [](\A t \in DOMAIN times : times[t].updated_at >= times[t].created_at)
    /\ [][\A t \in DOMAIN times : times'[t].updated_at >= times[t].updated_at]_vars

\* the (command, args) pairs the allowlist admits, written out: the command is
\* go or git, args is not empty, and args[1] is test for go, diff or status
\* for git
AllowlistAdmits(cmd, args) ==
    /\ cmd \in {"go", "git"}
    /\ Len(args) > 0
    /\ \/ cmd = "go" /\ args[1] = "test"
       \/ cmd = "git" /\ args[1] \in {"diff", "status"}

\* C27: the connector's Execute never starts a process for a (command, args)
\* pair for which IsAllowed is false: the call returns an error and no result;
\* and IsAllowed is true exactly for the pairs the allowlist admits (command in
\* the allowlist, args non-empty, args[1] one of the command's first arguments)
C27_ExecuteOnlyAllowed ==
    [][lexec' # lexec =>
          /\ IsAllowed(lexec'.cmd, lexec'.args) <=> AllowlistAdmits(lexec'.cmd, lexec'.args)
          /\ ~AllowlistAdmits(lexec'.cmd, lexec'.args) =>
                /\ lexec'.spawns = lexec.spawns
                /\ lexec'.err
                /\ lexec'.result = <<>>]_vars

\* a call of go run is rejected after an earlier call has started a process
C27_Witness ==
    /\ lexec.cmd = "go"
    /\ lexec.args = <<"run", "test">>
    /\ lexec.err
    /\ lexec.result = <<>>
    /\ lexec.spawns = 1

\* the scheduler has just been started on M pending tasks with global_max >= M
\* and a per-connector limit >= M
StartedWithRoom ==
    /\ mainPc = "serving"
    /\ nextWorker = 0
    /\ \A i \in DOMAIN loops : loops[i].pc = "select"
    /\ \A t \in DOMAIN tasks : tasks[t].status = TaskStatusPending
    /\ config.GlobalMax >= Len(tasks)
    /\ ConnectorName \in DOMAIN config.ByConnector
    /\ config.ByConnector[ConnectorName] >= Len(tasks)

\* active_workers equals the number of tasks, every task is claimed by a
\* worker id of its own, and has an active lease
AllInParallel ==
    /\ activeWorkers = Len(tasks)
    /\ \A t \in DOMAIN tasks :
          /\ tasks[t].status = TaskStatusClaimed
          /\ tasks[t].claimed_by \in WorkerIds
          /\ ActiveLeases(leases, t, now) # {}
    /\ \A t, u \in DOMAIN tasks : t # u => tasks[t].claimed_by # tasks[u].claimed_by

\* C28: with M pending tasks, global_max >= M, a per-connector limit >= M and
\* workers that hold their claims long enough, the scheduler eventually reaches
\* a state in which active_workers = M, all M tasks are claimed, their
\* claimed_by values are pairwise distinct worker ids, and each task has an
\* active lease.
C28_AllDispatched == StartedWithRoom ~> AllInParallel

\* two tasks are held by two workers at once
C28_Witness ==
    /\ Len(tasks) = 2
    /\ AllInParallel
    /\ Cardinality(DOMAIN wk) = 2

\* the workers of the connector that are running and still counted
ActiveOfConnector == {w \in DOMAIN wk : wk[w].pc # "done"}

\* C29: for a connector whose name is absent from per_connector_max the limit
\* the scheduler uses is 1: at most one worker of that connector is active at
\* any time, also when global_max is larger and more tasks are pending.
C29_AbsentConnectorLimitOne ==
    ConnectorName \notin DOMAIN config.ByConnector
    => /\ GetConnectorLimit(config, ConnectorName) = 1
       /\ Count(connectorCounts, ConnectorName) <= 1
       /\ activeWorkers <= 1
       /\ Cardinality(ActiveOfConnector) <= 1

\* the connector is absent from per_connector_max, global_max is 2, one worker
\* holds a task and the poll loop is between polls while another task is pending
C29_Witness ==
    /\ ConnectorName \notin DOMAIN config.ByConnector
    /\ config.GlobalMax = 2
    /\ ~ctxDone
    /\ Cardinality(ActiveOfConnector) = 1
    /\ Count(connectorCounts, ConnectorName) = 1
    /\ \E t \in DOMAIN tasks : tasks[t].status = TaskStatusPending
    /\ \E i \in DOMAIN loops : loops[i].pc = "select"

\* the poll loops that have not returned
ActiveLoops == {i \in DOMAIN loops : loops[i].pc # "returned"}

\* the counts are within the caps
CapsHold ==
    /\ activeWorkers <= config.GlobalMax
    /\ Count(connectorCounts, ConnectorName) <= GetConnectorLimit(config, ConnectorName)

\* C30: Start is idempotent: a Start call while a poll loop is active starts no
\* second poll loop, so at any time at most one poll loop exists, and the
\* concurrency caps keep holding after repeated Start calls.
C30_StartIdempotent ==
    /\ Cardinality(ActiveLoops) <= 1
    /\ CapsHold

\* no poll loop is started, no task is claimed by a scheduler worker and no
\* worker is spawned in the step
NoDispatchStep ==
    /\ Len(loops') = Len(loops)
    /\ nextWorker' = nextWorker
    /\ DOMAIN wk' \subseteq DOMAIN wk
    /\ \A t \in DOMAIN tasks :
          tasks'[t].status = TaskStatusClaimed => tasks[t].status = TaskStatusClaimed

\* C31 as stated: after Stop has been called (it has cancelled the context), a
\* later Start is a no-op: it starts no poll loop, and from that Start on no
\* task is claimed by the scheduler and no worker is spawned.
C31_LateStartNoOp ==
    [][(lateStarts' # lateStarts \/ lateStarts >= 1) => NoDispatchStep]_vars

\* C31 amended: a Start after Stop has cancelled the context starts no poll
\* loop and changes nothing of the scheduler; and when Stop has returned, no
\* task is claimed by the scheduler and no worker is spawned from that Start on.
C31_LateStartNoOpStopReturned ==
    [][/\ lateStarts' # lateStarts
          => /\ loops' = loops
             /\ wg' = wg
             /\ NoDispatchStep
       /\ (lateStarts >= 1 /\ mainPc = "stopped") => NoDispatchStep]_vars

\* Start has been called after Stop returned, on a scheduler that had
\* dispatched a worker, and a task is pending
C31_Witness ==
    /\ lateStarts = 1
    /\ mainPc = "stopped"
    /\ nextWorker >= 1
    /\ \E t \in DOMAIN tasks : tasks[t].status = TaskStatusPending

\* a poll of some loop returns in the step without a dispatch: at capacity, on
\* "no pending task", or on an error of the claim
PollReturnsEmpty ==
    \/ \E i \in DOMAIN loops : loops[i].pc = "claim" /\ loops'[i].pc = "select"
    \/ lastPoll' = "capacity" /\ lastPoll # "capacity"

\* C32: a poll tick that finds the scheduler at capacity, finds no pending task
\* or gets an error from the claim leaves active_workers, connector_counts and
\* the WorkerInfo table unchanged, writes no task.dispatch audit record and
\* spawns no worker.
C32_EmptyPollChangesNothing ==
    [][PollReturnsEmpty =>
          /\ lastPoll' \in {"capacity", "no_task", "error"}
          /\ activeWorkers' = activeWorkers
          /\ connectorCounts' = connectorCounts
          /\ workers' = workers
          /\ pdr' = pdr
          /\ wk' = wk
          /\ wg' = wg
          /\ nextWorker' = nextWorker]_vars

\* a poll got an error from the claim while a worker was active
C32_Witness ==
    /\ lastPoll = "error"
    /\ activeWorkers >= 1
    /\ \A i \in DOMAIN loops : loops[i].pc = "select"

\* the poll loop i executes its store calls in the step (AtomicClaimTask and
\* the audit write of task.dispatch)
LoopStoreCall(i) == loops[i].pc = "claim" /\ loops'[i] # loops[i]

\* the worker w executes a store call in the step (UpdateTaskStatus,
\* ReleaseTask, DeleteLease)
WorkerStoreCall(w) ==
    /\ wk[w].pc \in {"complete", "release", "delete"}
    /\ w \in DOMAIN wk' => wk'[w].pc # wk[w].pc

\* the statements of a critical section run in the step
MuBodyStep == mu.phase = "locked" /\ mu'.phase = "unlocking"

C34_RenewOnlyActiveOwn ==
    [][\A h \in Clients :
        /\ (cp[h].op = "renew" /\ cp'[h] = Idle /\ cpRet'.err = OK)
           => /\ \E l \in ActiveLeases(leases, cp[h].task, now) :
                    l.id = cp[h].lease /\ l.holder_id = h
              /\ \A l \in leases :
                    IF l.id = cp[h].lease
                    THEN [l EXCEPT !.expires_at = now + cp[h].ttl] \in leases'
                    ELSE l \in leases'
              /\ Cardinality(leases') <= Cardinality(leases)
        /\ CallBegins(h, "renew")
           => LET t == CallTask(h, "renew")
              IN (\A l \in ActiveLeases(leases, t, now) : l.holder_id # h)
                 => /\ cp' = cp
                    /\ cpRet' = Ret(h, "renew", t, ErrNotOwner, 0)
                    /\ leases' = leases]_vars

\* another holder than the worker w owns the task t: it is the task's
\* claimed_by and has an active lease on it
OwnedByOther(w, t) ==
    /\ tasks[t].claimed_by \notin {w, NoHolder}
    /\ \E l \in ActiveLeases(leases, t, now) : l.holder_id = tasks[t].claimed_by

\* C35: a scheduler worker's exit path changes a task only while that worker
\* still owns it: when ownership of the task has passed to another holder
\* during the worker's lifetime, the worker's completion or release on exit
\* leaves the task's status and claimed_by as the new holder set them.
C35_ExitOnlyOwnTask ==
    [][\A w \in DOMAIN wk :
          (wk[w].pc \in {"complete", "release"} /\ WorkerStoreCall(w)
             /\ OwnedByOther(w, wk[w].task))
          => tasks'[wk[w].task] = tasks[wk[w].task]]_vars

\* the tasks in status claimed whose claimed_by is a scheduler worker id
ClaimedByWorkers ==
    {t \in DOMAIN tasks :
        tasks[t].status = TaskStatusClaimed /\ tasks[t].claimed_by \in WorkerIds}

\* C36: with no control-plane calls, in every reachable state the number of
\* tasks in status claimed whose claimed_by is a scheduler worker id is at most
\* global_max, also between a claim committing and the counters being
\* incremented and between a worker releasing its task and decrementing the
\* counters.
C36_ClaimedWithinGlobalMax == Cardinality(ClaimedByWorkers) <= config.GlobalMax

\* the poll loop has committed a claim and not yet incremented the counters:
\* as many tasks are claimed as global_max allows, one more than the workers
\* counted
C36_Witness ==
    /\ \E i \in DOMAIN loops : loops[i].pc = "count"
    /\ Cardinality(ClaimedByWorkers) = config.GlobalMax
    /\ activeWorkers = config.GlobalMax - 1
    /\ config.GlobalMax = 2

\* the lease of the task t has expired on its holder g: t is claimed by g, g
\* has a lease row on t, and t has no active lease
LeaseExpiredOn(g, t) ==
    /\ tasks[t].status = TaskStatusClaimed
    /\ tasks[t].claimed_by = g
    /\ \E l \in leases : l.task_id = t /\ l.holder_id = g
    /\ ActiveLeases(leases, t, now) = {}

\* the holder g of an expired lease on t has been followed by another holder:
\* t is claimed by another client, which holds every active lease on t
Superseded(g, t) ==
    /\ \E l \in leases : l.task_id = t /\ l.holder_id = g /\ l.expires_at <= now
    /\ tasks[t].claimed_by \in Clients \ {g}
    /\ ActiveLeases(leases, t, now) # {}
    /\ \A l \in ActiveLeases(leases, t, now) : l.holder_id = tasks[t].claimed_by

ClaimedByWorker(t) ==
    /\ t \in DOMAIN tasks
    /\ tasks[t].status = TaskStatusClaimed
    /\ tasks[t].claimed_by \in WorkerIds

\* C38: while the scheduler is started and not stopped, store operations
\* succeed and workers exit after worker_duration, every task that is pending
\* is eventually claimed by some scheduler worker, whatever the number of
\* pending tasks relative to the caps.
C38_PendingEventuallyClaimed ==
    \A t \in TaskIds :
        (mainPc = "serving" /\ t \in DOMAIN tasks /\ tasks[t].status = TaskStatusPending)
            ~> ClaimedByWorker(t)

\* with global_max 1 a second task has been claimed after the worker of the
\* first has completed its task and exited
C38_Witness ==
    /\ config.GlobalMax = 1
    /\ Len(tasks) = 2
    /\ \E t \in DOMAIN tasks : tasks[t].status = TaskStatusCompleted
    /\ \E t \in DOMAIN tasks : ClaimedByWorker(t)
    /\ activeWorkers = 1

\* the step is a ReleaseLock call that the specification has noted
ReleaseLockStep == lastRelease' # lastRelease \/ (locks' # locks /\ nextLock' = nextLock)

\* the lock g expired and was replaced: the last granted AcquireLock deleted
\* its row, and the lock of another holder on the resource is active
Replaced(g) ==
    /\ g \in lockReplaced
    /\ g.expires_at <= now
    /\ \E cur \in ActiveLocks(locks, g.resource_id, now) :
           cur.id # g.id /\ cur.holder_id # g.holder_id

\* C39: release_lock removes only the lock row with the given lock id:
\* releasing the id of a lock that has expired and been replaced by another
\* holder's lock on the same resource removes nothing, and the new holder's
\* lock stays active; after release_lock of the current lock's id,
\* acquire_lock on that resource by any holder succeeds.
C39_ReleaseOnlyGivenId ==
    [][ReleaseLockStep =>
          LET id == lastRelease'
          IN /\ locks' \subseteq locks
             /\ \A l \in locks : (l \in locks') <=> (l.id # id)
             /\ \A g \in lockReplaced :
                    (g.id = id /\ Replaced(g))
                        => /\ locks' = locks
                           /\ ActiveLocks(locks', g.resource_id, now)
                                  = ActiveLocks(locks, g.resource_id, now)
             /\ \A cur \in locks :
                    (cur.id = id /\ cur \in ActiveLocks(locks, cur.resource_id, now))
                        => \A h \in Holders, ttl \in TTLs :
                               AcquireLockOutcome(locks', nextLock + 1, cur.resource_id,
                                                  h, ttl, now).err = OK]_vars

\* the id of an expired lock was released after another holder's lock had
\* replaced it, and the new holder's lock is still active
C39_Witness ==
    \E g \in lockReplaced : lastRelease = g.id /\ Replaced(g)

=========================================================================
